---- MODULE Spec2Model ----
(***************************************************************************)
(* keyhunt worker pool (include/keyhunt/core/thread_pool.h): ThreadPool,   *)
(* its worker loop, the std::priority_queue<Task> it keeps, and the        *)
(* parallel_for / parallel_reduce utilities built on it.                   *)
(*                                                                         *)
(* Threads are modelled at the granularity of their visible steps: a       *)
(* section run under queue_mutex_ is one step unless it reads an atomic    *)
(* that other threads write without the mutex (paused_, active_tasks_),    *)
(* and every atomic access outside the mutex is a step of its own.         *)
(* A condition-variable wait is three steps: evaluate the predicate with   *)
(* the mutex held, release the mutex and block, and re-acquire after a     *)
(* notification (or a spurious wake-up).                                   *)
(***************************************************************************)
EXTENDS Integers, Sequences, FiniteSets, TLC

\* ---- bounds of the model ----
MaxWorkers == 2          \* pool sizes 1..MaxWorkers
MaxTasks == 3            \* tasks submitted by the caller in one behaviour
MaxBatch == 2            \* largest vector given to submit_batch
CounterModulus == 8      \* stands for 2^64, the range of the uint64_t stats
IndexModulus == 16       \* stands for 2^64, the range of IndexType and size_t
MaxChunks == 4           \* chunks parallel_for submits before the model stops it

\* ---- enum class TaskPriority ----
LOW == 0
NORMAL == 1
HIGH == 2
CRITICAL == 3
SubmitPriorities == {NORMAL, HIGH}

\* ---- holders of queue_mutex_ ----
NoHolder == 0            \* mutex free; workers hold it under their index
Caller == -1             \* the thread that uses the pool

NoTask == [id |-> 0, priority |-> LOW, func |-> [kind |-> "none", lo |-> 0, hi |-> 0]]
PlainFunc == [kind |-> "plain", lo |-> 0, hi |-> 0]
ThrowFunc == [kind |-> "throws", lo |-> 0, hi |-> 0]

VARIABLES
    tasks_,          \* std::priority_queue<Task>: the heap array
    stop_,           \* std::atomic<bool>
    paused_,         \* std::atomic<bool>
    active_tasks_,   \* std::atomic<size_t>
    stats_,          \* ThreadPoolStats (the three counters)
    mutex,           \* holder of queue_mutex_
    wpc,             \* worker -> position in worker_loop
    cur,             \* worker -> the local `task` of worker_loop, until it has run
    cpc,             \* position of the calling thread
    ret,             \* value returned by the caller's last wait_for
    nsub,            \* number of tasks submitted so far (ids are 1..nsub)
    done,            \* ids of the tasks whose func has been run (to its end or to a throw)
    threw,           \* ids of the tasks whose func threw
    pausedSubmitted, \* ids submitted since pause() while still paused
    resumedSet,      \* ids queued when resume() ended a pause, not yet run
    sinceReset,      \* submissions since the last reset_stats()
    resetIdle,       \* the last reset_stats() found the pool idle
    ppc,             \* position in parallel_for / parallel_reduce ("none": not called)
    parg,            \* its arguments: kind, start, end, chunk_size
    idx,             \* its loop variable i
    futures,         \* its vector of futures (task ids, in submission order)
    nwaited,         \* number of futures already waited for
    calls,           \* index -> number of times func / map_func was applied to it
    value,           \* task id -> value its future holds (parallel_reduce)
    result           \* the accumulator `result` of parallel_reduce

\* ---- scalarMult (include/keyhunt/platform.h, secp256k1.cuh part) ----
VARIABLES
    sm_pc,           \* position in scalarMult ("none": not called)
    sm_k,            \* its argument k
    sm_P,            \* its argument P
    sm_R,            \* *R, the result being accumulated
    sm_Q,            \* the local Point Q
    sm_i             \* the loop variable i

ecVars == <<sm_pc, sm_k, sm_P, sm_R, sm_Q, sm_i>>

\* ---- BSGS: generateBabyStepsKernel, bsgsGiantStepKernel and their host ----
VARIABLES
    bs_pc,           \* position in the search ("none": not started)
    bs_arg,          \* lo, hi, m, the key k behind the target, and the kernel's arguments
    bs_table,        \* outputX of generateBabyStepsKernel, one X per thread so far
    bs_bloom,        \* the bit positions set in bloomFilter
    bs_tid,          \* the giant-step thread being run
    bs_i,            \* its loop variable i
    bs_current,      \* its Point current
    bs_matchFlags,   \* matchFlags[0]
    bs_matches,      \* matchIndices / matchXCoords, as pairs <<index, x>>
    bs_found,        \* keys the host has verified and published
    bs_probed,       \* the giant steps probed so far, as pairs <<tid, i>>
    bs_hits          \* the pairs <<i, x>> that passed checkBloom so far

bsgsVars == <<bs_pc, bs_arg, bs_table, bs_bloom, bs_tid, bs_i, bs_current,
              bs_matchFlags, bs_matches, bs_found,
                   bs_probed, bs_hits>>

\* the state of the components other than the worker pool
\* WorkCoordinator (distributed.h)
VARIABLES
    co_total,       \* total_range_ and work_unit_size_
    co_pending,     \* pending_work_: queue of WorkUnit
    co_inProgress,  \* in_progress_: map id -> WorkUnit
    co_completed,   \* completed_work_: vector of WorkUnit
    co_sink,        \* the keys result_callback_ was called with, in order
    co_now,         \* steady_clock::now(), in seconds
    co_last         \* the last unit get_next_work returned, and to whom

coVars == <<co_total, co_pending, co_inProgress, co_completed, co_sink, co_now, co_last>>

\* KeyRange (types.h): one call of for_bits, size, contains or split
VARIABLES
    kr_pc,          \* "none", "call", "returned" or "threw"
    kr_arg,         \* the operation and its arguments
    kr_ret          \* what it returned

krVars == <<kr_pc, kr_arg, kr_ret>>

\* SimpleBloomFilter (test_bloom_filter.cpp), a cascade of one or more levels
VARIABLES
    bf_levels,      \* per level: bits_, num_bits_, num_hashes_
    bf_added,       \* the elements added since the last clear
    bf_query        \* the last query: element, whether it was added, result

bfVars == <<bf_levels, bf_added, bf_query>>

\* SecureBuffer<uint8_t> (memory.h)
VARIABLES
    sb_objs,        \* per buffer object: data_, size_, locked_ (and whether it is alive)
    sb_heap         \* the allocations made, in order: their bytes and their release

sbVars == <<sb_objs, sb_heap>>

\* one call of a device function of secp256k1.cuh: modMul or pointDouble
VARIABLES
    dv_call         \* the function, its arguments, and its result once it returned

dvVars == <<dv_call>>

\* MemoryStats (memory.h), used by several threads
VARIABLES
    ms_stats,       \* allocated_, peak_allocated_, total_allocations_, total_deallocations_
    ms_thr,         \* per thread: position in record_allocation / record_deallocation, locals
    ms_seen         \* the largest value allocated_ has held, the blocks recorded, calls made

msVars == <<ms_stats, ms_thr, ms_seen>>

\* MemoryPool<T, BlockSize> (memory.h), used by several threads
VARIABLES
    mp_pool,        \* blocks_, current_block_, current_pos_, blocks_allocated_, mutex_
    mp_thr,         \* per thread: position in allocate / clear
    mp_slots        \* the slots allocate returned since the last clear, in order

mpVars == <<mp_pool, mp_thr, mp_slots>>

libVars == <<ecVars, bsgsVars, coVars, krVars, bfVars, sbVars, dvVars, msVars, mpVars>>

vars == <<tasks_, stop_, paused_, active_tasks_, stats_, mutex, wpc, cur, cpc,
          ret, nsub, done, threw, pausedSubmitted, resumedSet,
          sinceReset, resetIdle, ppc, parg, idx, futures, nwaited, calls, value, result,
          libVars>>

poolVars == <<tasks_, stop_, paused_, active_tasks_, stats_, mutex, wpc, cur>>
ghostVars == <<pausedSubmitted, resumedSet, sinceReset, resetIdle>>
parVars == <<ppc, parg, idx, futures, nwaited, calls, value, result>>
threadPoolVars == <<poolVars, ghostVars, parVars, cpc, ret, nsub, done, threw>>

\* what the steps of one component leave alone
notEcVars == <<threadPoolVars, bsgsVars, coVars, krVars, bfVars, sbVars,
    dvVars, msVars, mpVars>>
notBsgsVars == <<threadPoolVars, ecVars, coVars, krVars, bfVars, sbVars,
    dvVars, msVars, mpVars>>
notCoVars == <<threadPoolVars, ecVars, bsgsVars, krVars, bfVars, sbVars,
    dvVars, msVars, mpVars>>
notKernelVars == <<threadPoolVars, coVars, krVars, bfVars, sbVars,
    dvVars, msVars, mpVars>>
notKrVars == <<threadPoolVars, ecVars, bsgsVars, coVars, bfVars, sbVars,
    dvVars, msVars, mpVars>>
notBfVars == <<threadPoolVars, ecVars, bsgsVars, coVars, krVars, sbVars,
    dvVars, msVars, mpVars>>
notSbVars == <<threadPoolVars, ecVars, bsgsVars, coVars, krVars, bfVars,
    dvVars, msVars, mpVars>>
notDvVars == <<threadPoolVars, ecVars, bsgsVars, coVars, krVars, bfVars, sbVars, msVars, mpVars>>
notMsVars == <<threadPoolVars, ecVars, bsgsVars, coVars, krVars, bfVars, sbVars, dvVars, mpVars>>
notMpVars == <<threadPoolVars, ecVars, bsgsVars, coVars, krVars, bfVars, sbVars, dvVars, msVars>>

Workers == DOMAIN wpc
Waiting == {w \in Workers : wpc[w] = "waiting"}
QueuedIds == {tasks_[i].id : i \in 1..Len(tasks_)}
InFlight == {w \in Workers : wpc[w] \in {"popped", "run"}}

\* operator< with the comparison turned round (a min-heap)
TaskLessInverted(a, b) == a.priority > b.priority

\* ---- Task::operator< ----
TaskLess(a, b) == a.priority < b.priority

\* ---- std::priority_queue<Task>: push_heap / pop_heap on the array ----
\* Indices are 0-based as in the library; h[i + 1] is element i.
RECURSIVE PushHeap(_, _, _)
PushHeap(h, hole, v) ==
    LET parent == (hole - 1) \div 2 IN
    IF hole > 0 /\ TaskLess(h[parent + 1], v)
    THEN PushHeap([h EXCEPT ![hole + 1] = h[parent + 1]], parent, v)
    ELSE [h EXCEPT ![hole + 1] = v]

RECURSIVE SiftHole(_, _, _)
\* the hole travels down to a leaf, following the larger child;
\* yields <<array, final hole>>
SiftHole(h, hole, len) ==
    IF hole < (len - 1) \div 2
    THEN LET right == 2 * (hole + 1)
             child == IF TaskLess(h[right + 1], h[right]) THEN right - 1 ELSE right
         IN SiftHole([h EXCEPT ![hole + 1] = h[child + 1]], child, len)
    ELSE <<h, hole>>

AdjustHeap(h, len, v) ==
    LET s == SiftHole(h, 0, len)
        h1 == s[1]
        c == s[2]
    IN IF len % 2 = 0 /\ len >= 2 /\ c = (len - 2) \div 2
       THEN PushHeap([h1 EXCEPT ![c + 1] = h1[2 * (c + 1)]], 2 * (c + 1) - 1, v)
       ELSE PushHeap(h1, c, v)

QueuePush(h, t) == PushHeap(Append(h, t), Len(h), t)
QueueTop(h) == h[1]
QueuePop(h) ==
    IF Len(h) <= 1 THEN <<>>
    ELSE AdjustHeap(SubSeq(h, 1, Len(h) - 1), Len(h) - 1, h[Len(h)])

\* the pop guard without the test of paused_
SkipPopIgnoresPause(empty, paused) == empty
\* the done predicate without the test of active_tasks_
DonePredQueueOnly(q, active) == q = <<>>

\* ---- the two wait predicates and the pop guard ----
WorkerPred(stop, empty, paused) == stop \/ (~empty /\ ~paused)
SkipPop(empty, paused) == empty \/ paused
DonePred(q, active) == q = <<>> /\ active = 0

\* ---- arithmetic of the unsigned stats counters ----
CAdd(x, n) == (x + n) % CounterModulus
CSub(x, n) == (x + CounterModulus - n) % CounterModulus

\* ---- ThreadPool::ThreadPool(num_threads) ----
PoolInit(n) ==
    /\ tasks_ = <<>>
    /\ stop_ = FALSE
    /\ paused_ = FALSE
    /\ active_tasks_ = 0
    /\ stats_ = [tasks_submitted |-> 0, tasks_completed |-> 0, tasks_pending |-> 0]
    /\ mutex = NoHolder
    /\ wpc = [w \in 1..n |-> "lock"]
    /\ cur = [w \in 1..n |-> NoTask]
    /\ nsub = 0
    /\ done = {}
    /\ threw = {}

NoArgs == [kind |-> "none", start |-> 0, end |-> 0, chunk_size |-> 0]

\* the caller has not started anything
CallerInit ==
    /\ cpc = "idle"
    /\ ret = TRUE
    /\ pausedSubmitted = {}
    /\ resumedSet = {}
    /\ sinceReset = 0
    /\ resetIdle = TRUE
    /\ idx = 0
    /\ futures = <<>>
    /\ nwaited = 0
    /\ calls = [j \in 0..(IndexModulus - 1) |-> 0]
    /\ value = [t \in 1..MaxChunks |-> <<>>]
    /\ result = <<>>

\* a Point that has not been given a value
NoPoint == [x |-> 0, y |-> 0, z |-> 0]

\* scalarMult has not been called
EcIdle ==
    /\ sm_pc = "none"
    /\ sm_k = 0
    /\ sm_P = NoPoint
    /\ sm_R = NoPoint
    /\ sm_Q = NoPoint
    /\ sm_i = 0

NoSearch == [lo |-> 0, hi |-> 0, m |-> 0, k |-> 0,
             targetX |-> 0, targetY |-> 0, giantStepX |-> 0, giantStepY |-> 0,
             numGiantSteps |-> 0, numBlocks |-> 0, threadsPerBlock |-> 0,
             giantStepsPerThread |-> 0, bloomSize |-> 0]

\* no search has been started
BsgsIdle ==
    /\ bs_pc = "none"
    /\ bs_arg = NoSearch
    /\ bs_table = <<>>
    /\ bs_bloom = {}
    /\ bs_tid = 0
    /\ bs_i = 0
    /\ bs_current = NoPoint
    /\ bs_matchFlags = 0
    /\ bs_matches = <<>>
    /\ bs_found = {}
    /\ bs_probed = <<>>
    /\ bs_hits = {}

NoWorker == ""
NoWorkId == 0

\* get_next_work has not returned a unit
NoHandout == [id |-> NoWorkId, worker |-> NoWorker, previous |-> NoWorker,
              inProgress |-> FALSE]

NoTotal == [lo |-> 0, hi |-> 0, size |-> 0]

\* the coordinator has not been initialized
CoIdle ==
    /\ co_total = NoTotal
    /\ co_pending = <<>>
    /\ co_inProgress = <<>>
    /\ co_completed = <<>>
    /\ co_sink = <<>>
    /\ co_now = 0
    /\ co_last = NoHandout

\* no KeyRange operation has been called
KrIdle ==
    /\ kr_pc = "none"
    /\ kr_arg = <<>>
    /\ kr_ret = <<>>

NoQuery == [element |-> <<>>, added |-> FALSE, result |-> FALSE]

\* no bloom filter has been constructed
BfIdle ==
    /\ bf_levels = <<>>
    /\ bf_added = {}
    /\ bf_query = NoQuery

\* the names of the SecureBuffer objects of the program
Buffers == {"buffer1", "buffer2"}

nullptr == 0

\* an object outside its lifetime
NoBuffer == [alive |-> FALSE, data_ |-> nullptr, size_ |-> 0, locked_ |-> FALSE, moved |-> FALSE]

\* no SecureBuffer has been constructed
SbIdle ==
    /\ sb_objs = [b \in Buffers |-> NoBuffer]
    /\ sb_heap = <<>>

NoCall == [pc |-> "none"]

\* no device function has been called
DvIdle == dv_call = NoCall

\* the threads that use the MemoryStats singleton and the MemoryPool
Threads == {"t1", "t2"}

NoStats == [allocated_ |-> 0, peak_allocated_ |-> 0,
            total_allocations_ |-> 0, total_deallocations_ |-> 0]

\* a thread outside record_allocation and record_deallocation
StatsOutside == [pc |-> "outside", bytes |-> 0, current |-> 0, peak |-> 0]

NothingSeen == [high |-> 0, blocks |-> <<>>, calls |-> 0, completed |-> 0]

\* MemoryStats has not been used
MsIdle ==
    /\ ms_stats = NoStats
    /\ ms_thr = [t \in Threads |-> StatsOutside]
    /\ ms_seen = NothingSeen

NoMutexOwner == ""

\* MemoryPool(): no block, position 0
EmptyPool == [blocks_ |-> <<>>, current_block_ |-> nullptr, current_pos_ |-> 0,
              blocks_allocated_ |-> 0, mutex_ |-> NoMutexOwner]

\* the MemoryPool has not been used
\* slots returned since the last clear(), number of clear() calls, and
\* whether an allocate() has thrown
NoSlots == [returned |-> <<>>, clears |-> 0, thrown |-> 0]

MpIdle ==
    /\ mp_pool = EmptyPool
    /\ mp_thr = [t \in Threads |-> "outside"]
    /\ mp_slots = NoSlots

\* the components added last are not in use
RestIdle == DvIdle /\ MsIdle /\ MpIdle

\* no other component is in use
LibIdle == EcIdle /\ BsgsIdle /\ CoIdle /\ KrIdle /\ BfIdle /\ SbIdle /\ RestIdle

Init ==
    /\ \E n \in 1..MaxWorkers : PoolInit(n)
    /\ CallerInit
    /\ ppc = "none"
    /\ parg = NoArgs
    /\ LibIdle

\* a pool that is never used, for the specifications of the other components
PoolUnused ==
    /\ PoolInit(1)
    /\ CallerInit
    /\ ppc = "none"
    /\ parg = NoArgs

\* ======================= worker_loop =======================

\* condition_.wait(lock, pred): take the mutex and evaluate the predicate
WorkerLock(w) ==
    /\ w \in Workers
    /\ wpc[w] = "lock"
    /\ mutex = NoHolder
    /\ mutex' = w
    /\ wpc' = [wpc EXCEPT ![w] =
                  IF WorkerPred(stop_, tasks_ = <<>>, paused_) THEN "check" ELSE "block"]
    /\ UNCHANGED <<tasks_, stop_, paused_, active_tasks_, stats_, cur, cpc, ret,
                   nsub, done, threw>>
    /\ UNCHANGED ghostVars
    /\ UNCHANGED parVars
    /\ UNCHANGED libVars

\* the predicate was false: release the mutex and sleep on condition_
WorkerBlock(w) ==
    /\ w \in Workers
    /\ wpc[w] = "block"
    /\ mutex' = NoHolder
    /\ wpc' = [wpc EXCEPT ![w] = "waiting"]
    /\ UNCHANGED <<tasks_, stop_, paused_, active_tasks_, stats_, cur, cpc, ret,
                   nsub, done, threw>>
    /\ UNCHANGED ghostVars
    /\ UNCHANGED parVars
    /\ UNCHANGED libVars

\* the rest of the section under the mutex, after the predicate held:
\*   if (stop_ && tasks_.empty()) return;
\*   if (tasks_.empty() || paused_) continue;
\*   task = tasks_.top(); tasks_.pop(); --tasks_pending;
\* the mutex is released on each of the three ways out
WorkerCheck(w) ==
    /\ w \in Workers
    /\ wpc[w] = "check"
    /\ mutex' = NoHolder
    /\ IF stop_ /\ tasks_ = <<>>
       THEN /\ wpc' = [wpc EXCEPT ![w] = "exited"]
            /\ UNCHANGED <<tasks_, stats_, cur>>
       ELSE IF SkipPop(tasks_ = <<>>, paused_)
       THEN /\ wpc' = [wpc EXCEPT ![w] = "lock"]
            /\ UNCHANGED <<tasks_, stats_, cur>>
       ELSE /\ cur' = [cur EXCEPT ![w] = QueueTop(tasks_)]
            /\ tasks_' = QueuePop(tasks_)
            /\ stats_' = [stats_ EXCEPT !.tasks_pending = CSub(@, 1)]
            /\ wpc' = [wpc EXCEPT ![w] = "popped"]
    /\ UNCHANGED <<stop_, paused_, active_tasks_, cpc, ret, nsub, done, threw>>
    /\ UNCHANGED ghostVars
    /\ UNCHANGED parVars
    /\ UNCHANGED libVars

\* active_tasks_.fetch_add(1)
WorkerActivate(w) ==
    /\ w \in Workers
    /\ wpc[w] = "popped"
    /\ active_tasks_' = active_tasks_ + 1
    /\ wpc' = [wpc EXCEPT ![w] = "run"]
    /\ UNCHANGED <<tasks_, stop_, paused_, stats_, mutex, cur, cpc, ret,
                   nsub, done, threw>>
    /\ UNCHANGED ghostVars
    /\ UNCHANGED parVars
    /\ UNCHANGED libVars

\* the worker loop without the try/catch: a throw ends the thread
AfterTaskUncaught(thrown) == IF thrown THEN "exited" ELSE "fin"

\* where the worker goes after task.func(): the catch (...) swallows a throw
AfterTask(thrown) == "fin"

\* the indices j = lo; j < hi; ++j that a chunk lambda walks through
ChunkIndices(f) == {j \in 0..(IndexModulus - 1) : f.lo <= j /\ j < f.hi}

\* for (j = i; j < chunk_end; ++j) result = reduce_func(result, map_func(j));
\* with map_func(j) = <<j>>, reduce_func = concatenation and identity = <<>>
RECURSIVE ChunkFold(_, _, _)
ChunkFold(acc, j, hi) ==
    IF j < hi THEN ChunkFold(acc \o <<j>>, j + 1, hi) ELSE acc

\* try { task.func(); } catch (...) { }
\* (the local `task` is not read again in this pass of the loop: cur is
\* cleared here rather than at the end of the pass)
WorkerRun(w) ==
    /\ w \in Workers
    /\ wpc[w] = "run"
    /\ LET f == cur[w].func
           thrown == f.kind = "throws"
       IN /\ threw' = IF thrown THEN threw \cup {cur[w].id} ELSE threw
          /\ done' = done \cup {cur[w].id}
          /\ wpc' = [wpc EXCEPT ![w] = AfterTask(thrown)]
          /\ calls' = IF f.kind \in {"for", "reduce"}
                       THEN [j \in DOMAIN calls |->
                               IF j \in ChunkIndices(f) THEN calls[j] + 1 ELSE calls[j]]
                       ELSE calls
          /\ value' = IF f.kind = "reduce"
                       THEN [value EXCEPT ![cur[w].id] = ChunkFold(<<>>, f.lo, f.hi)]
                       ELSE value
    /\ cur' = [cur EXCEPT ![w] = NoTask]
    /\ resumedSet' = resumedSet \ {cur[w].id}
    /\ UNCHANGED <<tasks_, stop_, paused_, active_tasks_, stats_, mutex, cpc,
                   ret, nsub, pausedSubmitted, sinceReset, resetIdle>>
    /\ UNCHANGED <<ppc, parg, idx, futures, nwaited, result>>
    /\ UNCHANGED libVars

\* active_tasks_.fetch_sub(1)
WorkerFinish(w) ==
    /\ w \in Workers
    /\ wpc[w] = "fin"
    /\ active_tasks_' = active_tasks_ - 1
    /\ wpc' = [wpc EXCEPT ![w] = "compl"]
    /\ UNCHANGED <<tasks_, stop_, paused_, stats_, mutex, cur, cpc, ret,
                   nsub, done, threw>>
    /\ UNCHANGED ghostVars
    /\ UNCHANGED parVars
    /\ UNCHANGED libVars

\* stats_.tasks_completed.fetch_add(1)
WorkerComplete(w) ==
    /\ w \in Workers
    /\ wpc[w] = "compl"
    /\ stats_' = [stats_ EXCEPT !.tasks_completed = CAdd(@, 1)]
    /\ wpc' = [wpc EXCEPT ![w] = "notify"]
    /\ UNCHANGED <<tasks_, stop_, paused_, active_tasks_, mutex, cur, cpc, ret,
                   nsub, done, threw>>
    /\ UNCHANGED ghostVars
    /\ UNCHANGED parVars
    /\ UNCHANGED libVars

\* the caller's position after a notification on done_condition_
DoneWoken(pc) ==
    CASE pc = "wait_waiting" -> "wait_lock"
      [] pc = "wf_waiting" -> "wf_lock"
      [] OTHER -> pc

\* done_condition_.notify_all(); back to the top of the loop
WorkerNotifyDone(w) ==
    /\ w \in Workers
    /\ wpc[w] = "notify"
    /\ cpc' = DoneWoken(cpc)
    /\ wpc' = [wpc EXCEPT ![w] = "lock"]
    /\ UNCHANGED <<tasks_, stop_, paused_, active_tasks_, stats_, mutex, cur, ret,
                   nsub, done, threw>>
    /\ UNCHANGED ghostVars
    /\ UNCHANGED parVars
    /\ UNCHANGED libVars

Worker(w) ==
    \/ WorkerLock(w) \/ WorkerBlock(w)
    \/ WorkerCheck(w)
    \/ WorkerActivate(w) \/ WorkerRun(w)
    \/ WorkerFinish(w) \/ WorkerComplete(w) \/ WorkerNotifyDone(w)

\* std::condition_variable may wake a sleeper without a notification
SpuriousWakeup ==
    /\ \/ /\ \E w \in Waiting : wpc' = [wpc EXCEPT ![w] = "lock"]
          /\ cpc' = cpc
       \/ /\ cpc \in {"wait_waiting", "wf_waiting"}
          /\ cpc' = DoneWoken(cpc)
          /\ wpc' = wpc
    /\ UNCHANGED <<tasks_, stop_, paused_, active_tasks_, stats_, mutex, cur, ret,
                   nsub, done, threw>>
    /\ UNCHANGED ghostVars
    /\ UNCHANGED parVars
    /\ UNCHANGED libVars

\* ======================= the calling thread =======================

NewTask(n, p, f) == [id |-> n, priority |-> p, func |-> f]

\* the section of submit_with_priority under queue_mutex_:
\* if (stop_) throw; tasks_.push(...); ++tasks_submitted; ++tasks_pending
Enqueue(p, f) ==
    /\ mutex = NoHolder
    /\ ~stop_
    /\ tasks_' = QueuePush(tasks_, NewTask(nsub + 1, p, f))
    /\ stats_' = [stats_ EXCEPT !.tasks_submitted = CAdd(@, 1),
                                !.tasks_pending = CAdd(@, 1)]
    /\ nsub' = nsub + 1
    /\ pausedSubmitted' = IF paused_ THEN pausedSubmitted \cup {nsub + 1}
                                     ELSE pausedSubmitted
    /\ sinceReset' = sinceReset + 1

\* submit_with_priority(priority, f); submit(f) is the same with NORMAL
SubmitWithPriority(p, f) ==
    /\ cpc = "idle"
    /\ ppc = "none"
    /\ nsub < MaxTasks
    /\ Enqueue(p, f)
    /\ cpc' = "notify_one"
    /\ UNCHANGED <<stop_, paused_, active_tasks_, mutex, wpc, cur, ret, done, threw,
                   resumedSet, resetIdle>>
    /\ UNCHANGED parVars
    /\ UNCHANGED libVars

\* condition_.notify_one() after the mutex is released
NotifyOne ==
    /\ cpc = "notify_one"
    /\ \/ /\ Waiting = {}
          /\ wpc' = wpc
       \/ \E w \in Waiting : wpc' = [wpc EXCEPT ![w] = "lock"]
    /\ cpc' = "idle"
    /\ UNCHANGED <<tasks_, stop_, paused_, active_tasks_, stats_, mutex, cur, ret,
                   nsub, done, threw>>
    /\ UNCHANGED ghostVars
    /\ UNCHANGED parVars
    /\ UNCHANGED libVars

RECURSIVE PushAll(_, _, _, _, _)
\* for (const auto& task : tasks) tasks_.push(Task{task, priority});
PushAll(h, first, count, p, f) ==
    IF count = 0 THEN h
    ELSE PushAll(QueuePush(h, NewTask(first, p, f)), first + 1, count - 1, p, f)

\* submit_batch(tasks, priority): the section under queue_mutex_;
\* the vector holds n copies of f, which run without a packaged_task round them
SubmitBatch(n, p, f) ==
    /\ cpc = "idle"
    /\ ppc = "none"
    /\ nsub + n <= MaxTasks
    /\ mutex = NoHolder
    /\ ~stop_
    /\ tasks_' = PushAll(tasks_, nsub + 1, n, p, f)
    /\ stats_' = [stats_ EXCEPT !.tasks_submitted = CAdd(@, n),
                                !.tasks_pending = CAdd(@, n)]
    /\ nsub' = nsub + n
    /\ pausedSubmitted' = IF paused_ THEN pausedSubmitted \cup (nsub + 1 .. nsub + n)
                                     ELSE pausedSubmitted
    /\ sinceReset' = sinceReset + n
    /\ cpc' = "notify_all"
    /\ UNCHANGED <<stop_, paused_, active_tasks_, mutex, wpc, cur, ret, done, threw,
                   resumedSet, resetIdle>>
    /\ UNCHANGED parVars
    /\ UNCHANGED libVars

\* condition_.notify_all() of submit_batch and of resume
NotifyAll ==
    /\ cpc = "notify_all"
    /\ wpc' = [w \in Workers |-> IF wpc[w] = "waiting" THEN "lock" ELSE wpc[w]]
    /\ cpc' = "idle"
    /\ UNCHANGED <<tasks_, stop_, paused_, active_tasks_, stats_, mutex, cur, ret,
                   nsub, done, threw>>
    /\ UNCHANGED ghostVars
    /\ UNCHANGED parVars
    /\ UNCHANGED libVars

\* pause(): paused_.store(true), without the mutex
Pause ==
    /\ cpc = "idle"
    /\ ppc = "none"
    /\ paused_' = TRUE
    /\ pausedSubmitted' = IF paused_ THEN pausedSubmitted ELSE {}
    /\ resumedSet' = {}
    /\ UNCHANGED <<tasks_, stop_, active_tasks_, stats_, mutex, wpc, cur, cpc, ret,
                   nsub, done, threw, sinceReset, resetIdle>>
    /\ UNCHANGED parVars
    /\ UNCHANGED libVars

\* resume(): paused_.store(false), without the mutex; notify_all follows
Resume ==
    /\ cpc = "idle"
    /\ ppc = "none"
    /\ paused_' = FALSE
    /\ pausedSubmitted' = {}
    /\ resumedSet' = IF paused_ THEN QueuedIds ELSE resumedSet
    /\ cpc' = "notify_all"
    /\ UNCHANGED <<tasks_, stop_, active_tasks_, stats_, mutex, wpc, cur, ret,
                   nsub, done, threw, sinceReset, resetIdle>>
    /\ UNCHANGED parVars
    /\ UNCHANGED libVars

PoolIdle ==
    /\ tasks_ = <<>>
    /\ \A w \in Workers : wpc[w] \notin {"popped", "run", "fin", "compl"}

\* reset_stats(): ThreadPoolStats::reset()
ResetStats ==
    /\ cpc = "idle"
    /\ ppc = "none"
    /\ stats_' = [tasks_submitted |-> 0, tasks_completed |-> 0, tasks_pending |-> 0]
    /\ sinceReset' = 0
    /\ resetIdle' = PoolIdle
    /\ UNCHANGED <<tasks_, stop_, paused_, active_tasks_, mutex, wpc, cur, cpc, ret,
                   nsub, done, threw, pausedSubmitted, resumedSet>>
    /\ UNCHANGED parVars
    /\ UNCHANGED libVars

\* wait(): done_condition_.wait(lock, pred), first evaluation
WaitCall ==
    /\ cpc = "idle"
    /\ ppc = "none"
    /\ mutex = NoHolder
    /\ IF DonePred(tasks_, active_tasks_)
       THEN cpc' = "wait_ret" /\ mutex' = NoHolder
       ELSE cpc' = "wait_block" /\ mutex' = Caller
    /\ UNCHANGED <<tasks_, stop_, paused_, active_tasks_, stats_, wpc, cur, ret,
                   nsub, done, threw>>
    /\ UNCHANGED ghostVars
    /\ UNCHANGED parVars
    /\ UNCHANGED libVars

\* release the mutex and sleep on done_condition_
WaitBlock ==
    /\ cpc = "wait_block"
    /\ mutex' = NoHolder
    /\ cpc' = "wait_waiting"
    /\ UNCHANGED <<tasks_, stop_, paused_, active_tasks_, stats_, wpc, cur, ret,
                   nsub, done, threw>>
    /\ UNCHANGED ghostVars
    /\ UNCHANGED parVars
    /\ UNCHANGED libVars

\* woken: take the mutex again and evaluate the predicate
WaitWake ==
    /\ cpc = "wait_lock"
    /\ mutex = NoHolder
    /\ IF DonePred(tasks_, active_tasks_)
       THEN cpc' = "wait_ret" /\ mutex' = NoHolder
       ELSE cpc' = "wait_block" /\ mutex' = Caller
    /\ UNCHANGED <<tasks_, stop_, paused_, active_tasks_, stats_, wpc, cur, ret,
                   nsub, done, threw>>
    /\ UNCHANGED ghostVars
    /\ UNCHANGED parVars
    /\ UNCHANGED libVars

\* wait_for(timeout): done_condition_.wait_for(lock, timeout, pred)
WaitForCall ==
    /\ cpc = "idle"
    /\ ppc = "none"
    /\ mutex = NoHolder
    /\ IF DonePred(tasks_, active_tasks_)
       THEN cpc' = "wf_ret" /\ mutex' = NoHolder /\ ret' = TRUE
       ELSE cpc' = "wf_block" /\ mutex' = Caller /\ ret' = ret
    /\ UNCHANGED <<tasks_, stop_, paused_, active_tasks_, stats_, wpc, cur,
                   nsub, done, threw>>
    /\ UNCHANGED ghostVars
    /\ UNCHANGED parVars
    /\ UNCHANGED libVars

WaitForBlock ==
    /\ cpc = "wf_block"
    /\ mutex' = NoHolder
    /\ cpc' = "wf_waiting"
    /\ UNCHANGED <<tasks_, stop_, paused_, active_tasks_, stats_, wpc, cur, ret,
                   nsub, done, threw>>
    /\ UNCHANGED ghostVars
    /\ UNCHANGED parVars
    /\ UNCHANGED libVars

\* woken before the deadline: the loop evaluates the predicate again
WaitForWake ==
    /\ cpc = "wf_lock"
    /\ mutex = NoHolder
    /\ IF DonePred(tasks_, active_tasks_)
       THEN cpc' = "wf_ret" /\ mutex' = NoHolder /\ ret' = TRUE
       ELSE cpc' = "wf_block" /\ mutex' = Caller /\ ret' = ret
    /\ UNCHANGED <<tasks_, stop_, paused_, active_tasks_, stats_, wpc, cur,
                   nsub, done, threw>>
    /\ UNCHANGED ghostVars
    /\ UNCHANGED parVars
    /\ UNCHANGED libVars

\* the deadline passes while the caller sleeps
WaitForTimeout ==
    /\ cpc = "wf_waiting"
    /\ cpc' = "wf_deadline"
    /\ UNCHANGED <<tasks_, stop_, paused_, active_tasks_, stats_, mutex, wpc, cur, ret,
                   nsub, done, threw>>
    /\ UNCHANGED ghostVars
    /\ UNCHANGED parVars
    /\ UNCHANGED libVars

\* after the deadline: take the mutex and return pred()
WaitForDeadline ==
    /\ cpc = "wf_deadline"
    /\ mutex = NoHolder
    /\ ret' = DonePred(tasks_, active_tasks_)
    /\ cpc' = "wf_ret"
    /\ UNCHANGED <<tasks_, stop_, paused_, active_tasks_, stats_, mutex, wpc, cur,
                   nsub, done, threw>>
    /\ UNCHANGED ghostVars
    /\ UNCHANGED parVars
    /\ UNCHANGED libVars

\* the caller goes on after wait() or wait_for() has returned
Return ==
    /\ cpc \in {"wait_ret", "wf_ret"}
    /\ cpc' = "idle"
    /\ ret' = TRUE
    /\ UNCHANGED <<tasks_, stop_, paused_, active_tasks_, stats_, mutex, wpc, cur,
                   nsub, done, threw>>
    /\ UNCHANGED ghostVars
    /\ UNCHANGED parVars
    /\ UNCHANGED libVars

\* shutdown(): set stop_ under the mutex
Shutdown ==
    /\ cpc = "idle"
    /\ ppc \in {"none", "returned"}
    /\ mutex = NoHolder
    /\ ~stop_
    /\ stop_' = TRUE
    /\ cpc' = "sd_notify"
    /\ UNCHANGED <<tasks_, paused_, active_tasks_, stats_, mutex, wpc, cur, ret,
                   nsub, done, threw>>
    /\ UNCHANGED ghostVars
    /\ UNCHANGED parVars
    /\ UNCHANGED libVars

\* condition_.notify_all() of shutdown
ShutdownNotify ==
    /\ cpc = "sd_notify"
    /\ wpc' = [w \in Workers |-> IF wpc[w] = "waiting" THEN "lock" ELSE wpc[w]]
    /\ cpc' = "sd_join"
    /\ UNCHANGED <<tasks_, stop_, paused_, active_tasks_, stats_, mutex, cur, ret,
                   nsub, done, threw>>
    /\ UNCHANGED ghostVars
    /\ UNCHANGED parVars
    /\ UNCHANGED libVars

\* shutdown() that returns without joining the workers
ShutdownJoin_NoJoin ==
    /\ cpc = "sd_join"
    /\ cpc' = "down"
    /\ UNCHANGED <<tasks_, stop_, paused_, active_tasks_, stats_, mutex, wpc, cur, ret,
                   nsub, done, threw>>
    /\ UNCHANGED ghostVars
    /\ UNCHANGED parVars
    /\ UNCHANGED libVars

\* worker.join() for every worker
ShutdownJoin ==
    /\ cpc = "sd_join"
    /\ \A w \in Workers : wpc[w] = "exited"
    /\ cpc' = "down"
    /\ UNCHANGED <<tasks_, stop_, paused_, active_tasks_, stats_, mutex, wpc, cur, ret,
                   nsub, done, threw>>
    /\ UNCHANGED ghostVars
    /\ UNCHANGED parVars
    /\ UNCHANGED libVars

Next ==
    \/ \E p \in SubmitPriorities : SubmitWithPriority(p, PlainFunc)
    \/ NotifyOne
    \/ \E n \in 1..MaxBatch, p \in SubmitPriorities : SubmitBatch(n, p, PlainFunc)
    \/ NotifyAll
    \/ Pause \/ Resume
    \/ WaitCall \/ WaitBlock \/ WaitWake \/ Return
    \/ Shutdown \/ ShutdownNotify \/ ShutdownJoin
    \/ \E w \in 1..MaxWorkers : Worker(w)
    \/ SpuriousWakeup

Spec == Init /\ [][Next]_vars

\* ---- fair scheduling: a thread that can take a step is not held up for ever.
\* A worker that keeps finding the mutex taken must get it in the end (SF);
\* the caller finishes the call it is in, but need not start a new one.
CallerProgress ==
    \/ NotifyOne \/ NotifyAll
    \/ WaitBlock \/ WaitWake
    \/ Return
    \/ ShutdownNotify \/ ShutdownJoin

Fairness ==
    /\ \A w \in 1..MaxWorkers : SF_vars(Worker(w))
    /\ SF_vars(CallerProgress)

\* ======================= tasks that throw =======================

ExcNext ==
    \/ \E f \in {PlainFunc, ThrowFunc} : SubmitWithPriority(NORMAL, f)
    \/ NotifyOne
    \/ Shutdown \/ ShutdownNotify \/ ShutdownJoin
    \/ \E w \in 1..MaxWorkers : Worker(w)
    \/ SpuriousWakeup

\* weak fairness is enough here: a thread that can keep taking a step takes it
ExcFairness ==
    /\ \A w \in 1..MaxWorkers : WF_vars(Worker(w))
    /\ WF_vars(NotifyOne \/ ShutdownNotify \/ ShutdownJoin)

ExcSpec == Init /\ [][ExcNext]_vars /\ ExcFairness

\* ======================= wait_for =======================

WaitForNext ==
    \/ SubmitWithPriority(NORMAL, PlainFunc)
    \/ NotifyOne
    \/ WaitForCall \/ WaitForBlock \/ WaitForWake \/ WaitForTimeout \/ WaitForDeadline
    \/ Return
    \/ Shutdown \/ ShutdownNotify \/ ShutdownJoin
    \/ \E w \in 1..MaxWorkers : Worker(w)
    \/ SpuriousWakeup

WaitForSpec == Init /\ [][WaitForNext]_vars

\* ======================= statistics =======================

StatsNext ==
    \/ SubmitWithPriority(NORMAL, PlainFunc)
    \/ NotifyOne
    \/ \E n \in 1..MaxBatch : SubmitBatch(n, NORMAL, PlainFunc)
    \/ NotifyAll
    \/ ResetStats
    \/ WaitCall \/ WaitBlock \/ WaitWake \/ Return
    \/ Shutdown \/ ShutdownNotify \/ ShutdownJoin
    \/ \E w \in 1..MaxWorkers : Worker(w)
    \/ SpuriousWakeup

StatsSpec == Init /\ [][StatsNext]_vars

\* ======================= pause and resume, fairly scheduled =======================

PauseNext ==
    \/ SubmitWithPriority(NORMAL, PlainFunc)
    \/ NotifyOne
    \/ Pause \/ Resume \/ NotifyAll
    \/ WaitCall \/ WaitBlock \/ WaitWake \/ Return
    \/ Shutdown \/ ShutdownNotify \/ ShutdownJoin
    \/ \E w \in 1..MaxWorkers : Worker(w)
    \/ SpuriousWakeup

PauseSpec == Init /\ [][PauseNext]_vars /\ Fairness

\* ======================= wait() on a pool that is never paused =======================

WaitNext ==
    \/ SubmitWithPriority(NORMAL, PlainFunc)
    \/ NotifyOne
    \/ WaitCall \/ WaitBlock \/ WaitWake \/ Return
    \/ \E w \in 1..MaxWorkers : Worker(w)
    \/ SpuriousWakeup

WaitSpec == Init /\ [][WaitNext]_vars /\ Fairness

\* ======================= parallel_for / parallel_reduce =======================
\* IndexType and size_t are the same unsigned type (the std::max call in the
\* default-chunk line only compiles for that instantiation); its arithmetic
\* is modulo IndexModulus.  func(j) is recorded in calls; parallel_reduce is
\* run with map_func(j) = <<j>>, reduce_func = concatenation (associative,
\* not commutative) and identity = <<>>.

ParStarts == {0, 1}
ParEnds == {0, 3, 8}
ParChunkSizes == {0, 1, 2, IndexModulus - 1}

Max(a, b) == IF a > b THEN a ELSE b
Min(a, b) == IF a < b THEN a ELSE b

\* chunk_size = std::max(IndexType(1), total / (pool.size() * 4))
DefaultChunk(total, size) == Max(1, total \div (size * 4))

\* chunk_end = std::min(i + static_cast<IndexType>(chunk_size), end)
ChunkEnd(from, chunk, end) == Min((from + chunk) % IndexModulus, end)

ParInit ==
    /\ \E n \in 1..MaxWorkers : PoolInit(n)
    /\ CallerInit
    /\ ppc = "entry"
    /\ \E kind \in {"for", "reduce"}, s \in ParStarts, e \in ParEnds, c \in ParChunkSizes :
          parg = [kind |-> kind, start |-> s, end |-> e, chunk_size |-> c]
    /\ LibIdle

\* if (start >= end) return; total = end - start; if (chunk_size == 0) ...
ParEnter ==
    /\ ppc = "entry"
    /\ IF parg.start >= parg.end
       THEN /\ ppc' = "returned"
            /\ UNCHANGED <<parg, idx>>
       ELSE /\ ppc' = "loop"
            /\ parg' = [parg EXCEPT !.chunk_size =
                          IF @ = 0
                          THEN DefaultChunk(parg.end - parg.start, Cardinality(Workers))
                          ELSE @]
            /\ idx' = parg.start
    /\ UNCHANGED <<futures, nwaited, calls, value, result>>
    /\ UNCHANGED poolVars
    /\ UNCHANGED <<cpc, ret, nsub, done, threw>>
    /\ UNCHANGED ghostVars
    /\ UNCHANGED libVars

\* one pass of for (i = start; i < end; i += chunk_size):
\* futures.push_back(pool.submit(chunk lambda)), up to the notify_one
ParSubmitChunk ==
    /\ ppc = "loop"
    /\ cpc = "idle"
    /\ idx < parg.end
    /\ nsub < MaxChunks
    /\ Enqueue(NORMAL, [kind |-> parg.kind, lo |-> idx,
                        hi |-> ChunkEnd(idx, parg.chunk_size, parg.end)])
    /\ futures' = Append(futures, nsub + 1)
    /\ idx' = (idx + parg.chunk_size) % IndexModulus
    /\ cpc' = "notify_one"
    /\ UNCHANGED <<stop_, paused_, active_tasks_, mutex, wpc, cur, ret, done, threw,
                   resumedSet, resetIdle>>
    /\ UNCHANGED <<ppc, parg, nwaited, calls, value, result>>
    /\ UNCHANGED libVars

\* the loop condition i < end fails
ParLoopEnd ==
    /\ ppc = "loop"
    /\ cpc = "idle"
    /\ idx >= parg.end
    /\ ppc' = "collect"
    /\ UNCHANGED <<parg, idx, futures, nwaited, calls, value, result>>
    /\ UNCHANGED poolVars
    /\ UNCHANGED <<cpc, ret, nsub, done, threw>>
    /\ UNCHANGED ghostVars
    /\ UNCHANGED libVars

\* f.wait() of parallel_for; result = reduce_func(result, f.get()) of parallel_reduce
ParWaitFuture ==
    /\ ppc = "collect"
    /\ nwaited < Len(futures)
    /\ futures[nwaited + 1] \in done
    /\ nwaited' = nwaited + 1
    /\ result' = IF parg.kind = "reduce" THEN result \o value[futures[nwaited + 1]]
                                          ELSE result
    /\ UNCHANGED <<ppc, parg, idx, futures, calls, value>>
    /\ UNCHANGED poolVars
    /\ UNCHANGED <<cpc, ret, nsub, done, threw>>
    /\ UNCHANGED ghostVars
    /\ UNCHANGED libVars

\* every future has been waited for: return (result)
ParReturn ==
    /\ ppc = "collect"
    /\ nwaited = Len(futures)
    /\ ppc' = "returned"
    /\ UNCHANGED <<parg, idx, futures, nwaited, calls, value, result>>
    /\ UNCHANGED poolVars
    /\ UNCHANGED <<cpc, ret, nsub, done, threw>>
    /\ UNCHANGED ghostVars
    /\ UNCHANGED libVars

\* the pool is destroyed (shutdown) once the utility has returned
ParNext ==
    \/ ParEnter \/ ParSubmitChunk \/ NotifyOne \/ ParLoopEnd
    \/ ParWaitFuture \/ ParReturn
    \/ Shutdown \/ ShutdownNotify \/ ShutdownJoin
    \/ \E w \in 1..MaxWorkers : Worker(w)
    \/ SpuriousWakeup

ParSpec == ParInit /\ [][ParNext]_vars

\* ======================= secp256k1 arithmetic (platform.h) =======================
\* uint256_t is NumLimbs limbs of LimbBits bits, least significant first; a
\* value is carried as the integer its limbs spell.  The widths are scaled
\* down, keeping the shape of the constants: limbs of 5 bits for uint32_t,
\* 2 limbs for 8, accumulators of two limbs for uint64_t, and
\* p = 2^(NumLimbs*LimbBits) - c with c one more than a limb's range
\* (c = 0x1000003D1 = 2^32 + 977 in the source).  y^2 = x^3 + 7 over this
\* p has prime order, like secp256k1.

LimbBits == 5
NumLimbs == 2
LimbBase == 2^LimbBits
WordModulus == LimbBase^NumLimbs
AccModulus == LimbBase * LimbBase
ReductionC == LimbBase + 1
SECP256K1_P == WordModulus - ReductionC
ScalarBits == NumLimbs * LimbBits

\* the values of product[] and of a Point
Products == [0..(2 * NumLimbs - 1) -> Nat]
Points == [x : Nat, y : Nat, z : Nat]

Limb(a, n) == (a \div LimbBase^n) % LimbBase

\* add256: r = a + b, returns the carry
Add256(a, b) == [r |-> (a + b) % WordModulus, carry |-> (a + b) \div WordModulus]

\* sub256: r = a - b, returns the borrow
Sub256(a, b) == [r |-> (a - b + WordModulus) % WordModulus,
                 borrow |-> IF a < b THEN 1 ELSE 0]

Cmp256(a, b) == IF a < b THEN -1 ELSE IF a > b THEN 1 ELSE 0

IsZero256(a) == a = 0

\* modAdd: one conditional subtraction of p
ModAdd[a \in Nat, b \in Nat] ==
    LET s == Add256(a, b) IN
    IF s.carry # 0 \/ Cmp256(s.r, SECP256K1_P) >= 0
    THEN Sub256(s.r, SECP256K1_P).r
    ELSE s.r

\* modSub: one conditional addition of p
ModSub[a \in Nat, b \in Nat] ==
    LET d == Sub256(a, b) IN
    IF d.borrow # 0 THEN Add256(d.r, SECP256K1_P).r ELSE d.r

\* modMul, schoolbook part: no sum in it exceeds the accumulator
\* ((B-1)^2 + 2(B-1) = B^2 - 1), so product[] holds the limbs of a * b
Product(a, b) == [n \in 0..(2 * NumLimbs - 1) |-> Limb(a * b, n)]

\* modMul, "Reduce high 256 bits": for i in 0..7,
\* sum = product[i] + product[i + 8] * c + carry in a uint64_t
FoldHigh[prod \in Products, n \in Nat, carry \in Nat] ==
    IF n = NumLimbs THEN <<prod, carry>>
    ELSE LET sum == (prod[n] + prod[n + NumLimbs] * ReductionC + carry) % AccModulus
         IN FoldHigh[[prod EXCEPT ![n] = sum % LimbBase], n + 1, sum \div LimbBase]

\* modMul: for (int i = 1; i < 8 && carry; i++)
Ripple[prod \in Products, n \in Nat, carry \in Nat] ==
    IF n < NumLimbs /\ carry # 0
    THEN LET sum == prod[n] + carry
         IN Ripple[[prod EXCEPT ![n] = sum % LimbBase], n + 1, sum \div LimbBase]
    ELSE <<prod, carry>>

\* modMul, "Handle remaining carry": while (carry), on <<product, carry>>
FoldCarry[st \in Products \X Nat] ==
    IF st[2] = 0 THEN st[1]
    ELSE LET sum == (st[1][0] + st[2] * ReductionC) % AccModulus
         IN FoldCarry[Ripple[[st[1] EXCEPT ![0] = sum % LimbBase], 1, sum \div LimbBase]]

\* the integer spelled by limbs 0..n of product[]
LowWord[prod \in Products, n \in Int] ==
    IF n < 0 THEN 0 ELSE prod[n] * LimbBase^n + LowWord[prod, n - 1]

\* modMul, "Final reduction if needed": one conditional subtraction of p
FinalReduction[r \in Nat] ==
    IF Cmp256(r, SECP256K1_P) >= 0 THEN Sub256(r, SECP256K1_P).r ELSE r

ModMul[a \in Nat, b \in Nat] ==
    FinalReduction[LowWord[FoldCarry[FoldHigh[Product(a, b), 0, 0]], NumLimbs - 1]]

ModSqr[a \in Nat] == ModMul[a, a]

\* modInv: binary exponentiation, exponent p - 2 (exp.limbs[0] -= 2), 256 bits
ModPow[base \in Nat, exp \in Nat, n \in Nat, acc \in Nat] ==
    IF n = ScalarBits THEN acc
    ELSE ModPow[ModSqr[base], exp, n + 1,
                IF (exp \div 2^n) % 2 = 1 THEN ModMul[acc, base] ELSE acc]

ModInv[a \in Nat] == ModPow[a, SECP256K1_P - 2, 0, 1]

\* ---- Point: Jacobian (x, y, z); generator ----
SECP256K1_GX == 1
SECP256K1_GY == 151
GeneratorPoint == [x |-> SECP256K1_GX, y |-> SECP256K1_GY, z |-> 1]

\* R->x.limbs[0] = 0; R->y.limbs[0] = 1; R->z.limbs[0] = 0; other limbs 0
Infinity == [x |-> 0, y |-> 1, z |-> 0]

\* pointDouble(R, P).  inPlace says that R and P are the same object, as in
\* pointDouble(&Q, &Q): the last statement then reads P->y after R->y was
\* written.
PointDouble[P \in Points, inPlace \in BOOLEAN] ==
    IF IsZero256(P.y) \/ IsZero256(P.z) THEN Infinity
    ELSE LET Y2 == ModSqr[P.y]
             S0 == ModMul[P.x, Y2]
             S1 == ModAdd[S0, S0]
             S == ModAdd[S1, S1]
             M0 == ModSqr[P.x]
             T0 == ModAdd[M0, M0]
             M == ModAdd[T0, M0]
             X3 == ModSub[ModSub[ModSqr[M], S], S]
             T1 == ModSub[S, X3]
             Y3a == ModMul[M, T1]
             T2 == ModSqr[Y2]
             T3 == ModAdd[T2, T2]
             T4 == ModAdd[T3, T3]
             T5 == ModAdd[T4, T4]
             Y3 == ModSub[Y3a, T5]
             yRead == IF inPlace THEN Y3 ELSE P.y
             Z3a == ModMul[yRead, P.z]
         IN [x |-> X3, y |-> Y3, z |-> ModAdd[Z3a, Z3a]]

\* pointAdd(R, P, Q).  inPlace says that R and P are the same object, as in
\* pointAdd(R, R, &Q); R->z is the last field written, and P->x, P->y are
\* not read after R->x, R->y are written, except by the pointDouble call.
PointAdd[P \in Points, Q \in Points, inPlace \in BOOLEAN] ==
    IF IsZero256(P.z) THEN Q
    ELSE IF IsZero256(Q.z) THEN P
    ELSE LET Z1Z1 == ModSqr[P.z]
             Z2Z2 == ModSqr[Q.z]
             U1 == ModMul[P.x, Z2Z2]
             U2 == ModMul[Q.x, Z1Z1]
             S1 == ModMul[ModMul[P.y, Q.z], Z2Z2]
             S2 == ModMul[ModMul[Q.y, P.z], Z1Z1]
             H == ModSub[U2, U1]
             R_val == ModSub[S2, S1]
             HH == ModSqr[H]
             HHH == ModMul[H, HH]
             V == ModMul[U1, HH]
             X3 == ModSub[ModSub[ModSub[ModSqr[R_val], HHH], V], V]
             Y3 == ModSub[ModMul[R_val, ModSub[V, X3]], ModMul[S1, HHH]]
             Z3 == ModMul[ModMul[P.z, Q.z], H]
         IN IF IsZero256(H)
            THEN IF IsZero256(R_val) THEN PointDouble[P, inPlace] ELSE Infinity
            ELSE [x |-> X3, y |-> Y3, z |-> Z3]

KBit(k, n) == (Limb(k, n \div LimbBits) \div 2^(n % LimbBits)) % 2

\* toAffine(P)
ToAffine[P \in Points] ==
    IF IsZero256(P.z) THEN P
    ELSE LET zInv == ModInv[P.z]
             zInv2 == ModSqr[zInv]
             zInv3 == ModMul[zInv2, zInv]
         IN [x |-> ModMul[P.x, zInv2], y |-> ModMul[P.y, zInv3], z |-> 1]

\* ---- scalarMult, one loop pass at a time ----
\* the points scalarMult is applied to: O, G (affine) and G as (4x, 8y, 2)
EcPoints == {Infinity, GeneratorPoint,
             [x |-> (4 * SECP256K1_GX) % SECP256K1_P,
              y |-> (8 * SECP256K1_GY) % SECP256K1_P, z |-> 2]}

EcInit ==
    /\ PoolUnused
    /\ BsgsIdle
    /\ CoIdle
    /\ KrIdle
    /\ BfIdle
    /\ SbIdle
    /\ RestIdle
    /\ sm_pc = "entry"
    /\ sm_k \in 0..(WordModulus - 1)
    /\ sm_P \in EcPoints
    /\ sm_R = Infinity
    /\ sm_Q = Infinity
    /\ sm_i = 0

\* R = infinity; Q = *P; i = 0
ScalarMultEnter ==
    /\ sm_pc = "entry"
    /\ sm_R' = Infinity
    /\ sm_Q' = sm_P
    /\ sm_i' = 0
    /\ sm_pc' = "loop"
    /\ UNCHANGED <<sm_k, sm_P>>
    /\ UNCHANGED notEcVars

\* i < 256: if bit i of k is set, pointAdd(R, R, &Q); pointDouble(&Q, &Q); i++
ScalarMultStep ==
    /\ sm_pc = "loop"
    /\ sm_i < ScalarBits
    /\ sm_R' = IF KBit(sm_k, sm_i) = 1 THEN PointAdd[sm_R, sm_Q, TRUE] ELSE sm_R
    /\ sm_Q' = PointDouble[sm_Q, TRUE]
    /\ sm_i' = sm_i + 1
    /\ UNCHANGED <<sm_pc, sm_k, sm_P>>
    /\ UNCHANGED notEcVars

\* i == 256: the loop ends and scalarMult returns
ScalarMultReturn ==
    /\ sm_pc = "loop"
    /\ sm_i = ScalarBits
    /\ sm_pc' = "returned"
    /\ UNCHANGED <<sm_k, sm_P, sm_R, sm_Q, sm_i>>
    /\ UNCHANGED notEcVars

EcNext == ScalarMultEnter \/ ScalarMultStep \/ ScalarMultReturn

EcSpec == EcInit /\ [][EcNext]_vars

\* ---- the group of the curve y^2 = x^3 + 7 over GF(p), in exact arithmetic ----
PointAtInfinity == <<"O">>
AffinePoints == {PointAtInfinity} \cup (Nat \X Nat)

FieldSqr[a \in Nat] == (a * a) % SECP256K1_P

FieldPow[a \in Nat, e \in Nat] ==
    IF e = 0 THEN 1
    ELSE IF e % 2 = 0 THEN FieldSqr[FieldPow[a, e \div 2]]
    ELSE (FieldSqr[FieldPow[a, e \div 2]] * a) % SECP256K1_P

FieldInv[a \in Nat] == FieldPow[a % SECP256K1_P, SECP256K1_P - 2]
FieldSub[a \in Nat, b \in Nat] == (a + SECP256K1_P - (b % SECP256K1_P)) % SECP256K1_P
FieldMul[a \in Nat, b \in Nat] == ((a % SECP256K1_P) * (b % SECP256K1_P)) % SECP256K1_P

\* chord-and-tangent addition of affine points
GroupAdd[A \in AffinePoints, B \in AffinePoints] ==
    IF A = PointAtInfinity THEN B
    ELSE IF B = PointAtInfinity THEN A
    ELSE IF A[1] = B[1] /\ (A[2] + B[2]) % SECP256K1_P = 0 THEN PointAtInfinity
    ELSE LET l == IF A[1] = B[1]
                  THEN FieldMul[3 * FieldMul[A[1], A[1]], FieldInv[2 * A[2]]]
                  ELSE FieldMul[FieldSub[B[2], A[2]], FieldInv[FieldSub[B[1], A[1]]]]
             x3 == FieldSub[FieldSub[FieldMul[l, l], A[1]], B[1]]
         IN <<x3, FieldSub[FieldMul[l, FieldSub[A[1], x3]], A[2]]>>

GroupNeg[A \in AffinePoints] ==
    IF A = PointAtInfinity THEN A ELSE <<A[1], (SECP256K1_P - A[2]) % SECP256K1_P>>

GroupDouble[A \in AffinePoints] == GroupAdd[A, A]

GroupMul[k \in Nat, A \in AffinePoints] ==
    IF k = 0 THEN PointAtInfinity
    ELSE IF k % 2 = 0 THEN GroupDouble[GroupMul[k \div 2, A]]
    ELSE GroupAdd[GroupDouble[GroupMul[k \div 2, A]], A]

\* the affine point a Jacobian triple stands for (x = X/Z^2, y = Y/Z^3)
AffineOf[P \in Points] ==
    IF P.z % SECP256K1_P = 0 THEN PointAtInfinity
    ELSE LET zi == FieldInv[P.z]
         IN <<FieldMul[P.x, FieldMul[zi, zi]], FieldMul[P.y, FieldMul[zi, FieldMul[zi, zi]]]>>

\* ======================= BSGS (bsgs_kernel.cu part of platform.h) =======================
\* The two kernels are modelled from their code.  The host side that
\* launches them (CPUBSGSEngine / CUDABSGSEngine) is declared in bsgs.h
\* only; what it does is taken from the design (section 4.3): baby steps for
\* the scalars [0, m), the bloom filter over their X coordinates, the target
\* T - lo*G and the giant step m*G handed to the kernel in affine form,
\* enough threads to cover numGiantSteps, and for every recorded match the
\* table lookup, k = lo + j*m + i and the verification k*G = T.

MaxRangeSize == 6
MaxBabySteps == 3
MaxBlocks == 2
MaxThreadsPerBlock == 2
BsgsLows == {1, 5}
BloomSizes == {1, 2}

\* "if (idx < 1024)": the size of the match arrays, scaled down like the ranges
MatchLimit == 2

BitXor[a \in Nat, b \in Nat, n \in Nat] ==
    IF n = 0 THEN 0 ELSE ((a + b) % 2) + 2 * BitXor[a \div 2, b \div 2, n - 1]

BitOr[a \in Nat, b \in Nat, n \in Nat] ==
    IF n = 0 THEN 0
    ELSE (IF a % 2 = 1 \/ b % 2 = 1 THEN 1 ELSE 0) + 2 * BitOr[a \div 2, b \div 2, n - 1]

\* hashXCoord: FNV over the limbs, in a uint32_t (one limb wide); the
\* constants are the low bits of 0x811c9dc5 and 0x01000193
FnvOffsetBasis == 5
FnvPrime == 19
HalfShift == LimbBits \div 2

HashLimbs[x \in Nat, n \in Nat, h \in Nat] ==
    IF n = NumLimbs THEN h
    ELSE HashLimbs[x, n + 1, (BitXor[h, Limb(x, n), LimbBits] * FnvPrime) % LimbBase]

HashXCoord[x \in Nat] == HashLimbs[x, 0, FnvOffsetBasis]

\* checkBloom: the three bit positions probed for x
BloomPositions[x \in Nat, bloomSize \in Nat] ==
    LET h1 == HashXCoord[x]
        h2 == BitOr[h1 \div 2^HalfShift, (h1 * 2^HalfShift) % LimbBase, LimbBits]
    IN {h1 % (bloomSize * 8), h2 % (bloomSize * 8),
        BitXor[h1, h2, LimbBits] % (bloomSize * 8)}

CheckBloom(x, bloomFilter, bloomSize) == BloomPositions[x, bloomSize] \subseteq bloomFilter

GeneratorAffine == <<SECP256K1_GX, SECP256K1_GY>>

\* how the host hands a point to the kernel: affine x and y (the kernel sets
\* z = 1); the point at infinity goes as the x, y of Infinity
KernelCoords(A) == IF A = PointAtInfinity THEN <<Infinity.x, Infinity.y>> ELSE A

CeilDiv(a, b) == (a + b - 1) \div b

\* the kernel's argument numGiantSteps
NumGiantSteps == bs_arg.numGiantSteps

\* cudaLaunchBSGS: giantStepsPerThread for the launch <<<numBlocks, threadsPerBlock>>>
GiantStepsPerThread(numGiantSteps, numBlocks, threadsPerBlock) ==
    (numGiantSteps + numBlocks * threadsPerBlock - 1) \div (numBlocks * threadsPerBlock)

\* totalThreads = gridDim.x * blockDim.x
TotalThreads == bs_arg.numBlocks * bs_arg.threadsPerBlock

\* T = k*G, and the kernel's arguments targetX/Y = T - lo*G, giantStepX/Y = m*G
TargetPoint == GroupMul[bs_arg.k, GeneratorAffine]
KernelTarget(k, lo) ==
    KernelCoords(GroupAdd[GroupMul[k, GeneratorAffine],
                          GroupNeg[GroupMul[lo, GeneratorAffine]]])
KernelGiantStep(m) == KernelCoords(GroupMul[m, GeneratorAffine])

\* the kernel's Point target (z = 1) and Point giantStep (z = 1, y negated)
LoadTarget == [x |-> bs_arg.targetX, y |-> bs_arg.targetY, z |-> 1]
LoadGiantStep ==
    [x |-> bs_arg.giantStepX, y |-> ModSub[SECP256K1_P, bs_arg.giantStepY], z |-> 1]

\* "Use positive Y for scalar mult"
GiantStepPositive == [LoadGiantStep EXCEPT !.y = ModSub[SECP256K1_P, LoadGiantStep.y]]

BsgsInit ==
    /\ PoolUnused
    /\ EcIdle
    /\ CoIdle
    /\ KrIdle
    /\ BfIdle
    /\ SbIdle
    /\ RestIdle
    /\ bs_pc = "baby"
    /\ \E lo \in BsgsLows, n \in 1..MaxRangeSize, b \in BloomSizes,
          numBlocks \in 1..MaxBlocks, threadsPerBlock \in 1..MaxThreadsPerBlock :
         \E m \in 1..Min(MaxBabySteps, n), k \in lo..(lo + n - 1) :
            bs_arg = [lo |-> lo, hi |-> lo + n - 1, m |-> m, k |-> k,
                      targetX |-> KernelTarget(k, lo)[1],
                      targetY |-> KernelTarget(k, lo)[2],
                      giantStepX |-> KernelGiantStep(m)[1],
                      giantStepY |-> KernelGiantStep(m)[2],
                      numGiantSteps |-> CeilDiv(n, m),
                      numBlocks |-> numBlocks, threadsPerBlock |-> threadsPerBlock,
                      giantStepsPerThread |->
                          GiantStepsPerThread(CeilDiv(n, m), numBlocks, threadsPerBlock),
                      bloomSize |-> b]
    /\ bs_table = <<>>
    /\ bs_bloom = {}
    /\ bs_tid = 0
    /\ bs_i = 0
    /\ bs_current = NoPoint
    /\ bs_matchFlags = 0
    /\ bs_matches = <<>>
    /\ bs_found = {}
    /\ bs_probed = <<>>
    /\ bs_hits = {}

\* generateBabyStepsKernel(outputX, outputHash, numPoints = m, startIndex = 0),
\* the thread tid = Len(bs_table): up to the call scalarMult(&result, &k, &G)
BabyStepThread ==
    /\ bs_pc = "baby"
    /\ Len(bs_table) < bs_arg.m
    /\ sm_pc' = "entry"
    /\ sm_k' = 0 + Len(bs_table)
    /\ sm_P' = GeneratorPoint
    /\ bs_pc' = "baby_mult"
    /\ UNCHANGED <<sm_R, sm_Q, sm_i>>
    /\ UNCHANGED <<bs_arg, bs_table, bs_bloom, bs_tid, bs_i, bs_current,
                   bs_matchFlags, bs_matches, bs_found,
                   bs_probed, bs_hits>>
    /\ UNCHANGED notKernelVars

\* scalarMult has returned: toAffine(&result), store the X coordinate
BabyStepStore ==
    /\ bs_pc = "baby_mult"
    /\ sm_pc = "returned"
    /\ bs_table' = Append(bs_table, ToAffine[sm_R].x)
    /\ bs_pc' = "baby"
    /\ sm_pc' = "none"
    /\ UNCHANGED <<sm_k, sm_P, sm_R, sm_Q, sm_i>>
    /\ UNCHANGED <<bs_arg, bs_bloom, bs_tid, bs_i, bs_current,
                   bs_matchFlags, bs_matches, bs_found,
                   bs_probed, bs_hits>>
    /\ UNCHANGED notKernelVars

\* host: the bloom filter over the table, then the giant-step kernel is launched
BuildBloom ==
    /\ bs_pc = "baby"
    /\ Len(bs_table) = bs_arg.m
    /\ bs_bloom' = UNION {BloomPositions[bs_table[n], bs_arg.bloomSize] :
                             n \in 1..Len(bs_table)}
    /\ bs_tid' = 0
    /\ bs_pc' = "thread_entry"
    /\ UNCHANGED <<bs_arg, bs_table, bs_i, bs_current, bs_matchFlags, bs_matches, bs_found,
                   bs_probed, bs_hits>>
    /\ UNCHANGED notBsgsVars

\* bsgsGiantStepKernel, thread bs_tid, up to the giant step loop or to the
\* call scalarMult(&skipPoint, &skipAmount, &giantStepPositive); a thread
\* with startIdx >= numGiantSteps returns at once
GiantThreadEnter ==
    /\ bs_pc = "thread_entry"
    /\ bs_tid < TotalThreads
    /\ LET startIdx == bs_tid * bs_arg.giantStepsPerThread IN
       IF startIdx >= NumGiantSteps
       THEN /\ bs_tid' = bs_tid + 1
            /\ UNCHANGED <<bs_pc, bs_i, bs_current, ecVars>>
       ELSE /\ bs_i' = startIdx
            /\ UNCHANGED bs_tid
            /\ IF startIdx > 0
               THEN /\ bs_pc' = "skip_mult"
                    /\ sm_pc' = "entry"
                    /\ sm_k' = startIdx
                    /\ sm_P' = GiantStepPositive
                    /\ UNCHANGED <<bs_current, sm_R, sm_Q, sm_i>>
               ELSE /\ bs_pc' = "thread_loop"
                    /\ bs_current' = LoadTarget
                    /\ UNCHANGED ecVars
    /\ UNCHANGED <<bs_arg, bs_table, bs_bloom, bs_matchFlags, bs_matches, bs_found,
                   bs_probed, bs_hits>>
    /\ UNCHANGED notKernelVars

\* scalarMult has returned: "Negate for subtraction", then
\* pointAdd(&current, &target, &skipPoint)
GiantThreadSkip ==
    /\ bs_pc = "skip_mult"
    /\ sm_pc = "returned"
    /\ bs_current' = PointAdd[LoadTarget,
                               [sm_R EXCEPT !.y = ModSub[SECP256K1_P, sm_R.y]], FALSE]
    /\ bs_pc' = "thread_loop"
    /\ sm_pc' = "none"
    /\ UNCHANGED <<sm_k, sm_P, sm_R, sm_Q, sm_i>>
    /\ UNCHANGED <<bs_arg, bs_table, bs_bloom, bs_tid, bs_i,
                   bs_matchFlags, bs_matches, bs_found,
                   bs_probed, bs_hits>>
    /\ UNCHANGED notKernelVars

EndIdx_NoClamp == bs_tid * bs_arg.giantStepsPerThread + bs_arg.giantStepsPerThread

\* endIdx = min(startIdx + giantStepsPerThread, numGiantSteps)
EndIdx ==
    Min(bs_tid * bs_arg.giantStepsPerThread + bs_arg.giantStepsPerThread, NumGiantSteps)

\* one pass of the giant step loop
GiantThreadStep ==
    /\ bs_pc = "thread_loop"
    /\ bs_i < EndIdx
    /\ LET affine == ToAffine[bs_current] IN
       IF CheckBloom(affine.x, bs_bloom, bs_arg.bloomSize)
       THEN /\ bs_matchFlags' = bs_matchFlags + 1
            /\ bs_matches' = IF bs_matchFlags < MatchLimit
                             THEN Append(bs_matches, <<bs_i % LimbBase, affine.x>>)
                             ELSE bs_matches
            /\ bs_hits' = bs_hits \cup {<<bs_i, affine.x>>}
       ELSE UNCHANGED <<bs_matchFlags, bs_matches, bs_hits>>
    /\ bs_probed' = Append(bs_probed, <<bs_tid, bs_i>>)
    /\ bs_current' = PointAdd[bs_current, LoadGiantStep, TRUE]
    /\ bs_i' = bs_i + 1
    /\ UNCHANGED <<bs_pc, bs_arg, bs_table, bs_bloom, bs_tid, bs_found>>
    /\ UNCHANGED notBsgsVars

\* the loop of thread bs_tid ends; the next thread is run
GiantThreadExit ==
    /\ bs_pc = "thread_loop"
    /\ bs_i >= EndIdx
    /\ bs_tid' = bs_tid + 1
    /\ bs_pc' = "thread_entry"
    /\ UNCHANGED <<bs_arg, bs_table, bs_bloom, bs_i, bs_current,
                   bs_matchFlags, bs_matches, bs_found,
                   bs_probed, bs_hits>>
    /\ UNCHANGED notBsgsVars

\* host: for a match at giant step j with X = x, the table rows holding x
TableRows(x) == {n \in 0..(Len(bs_table) - 1) : bs_table[n + 1] = x}

\* host: candidates k = lo + j*m + i of the recorded matches that verify
Verified ==
    {c \in {bs_arg.lo + bs_matches[n][1] * bs_arg.m + r :
               n \in 1..Len(bs_matches), r \in 0..(bs_arg.m - 1)} :
        /\ \E n \in 1..Len(bs_matches) :
              \E r \in TableRows(bs_matches[n][2]) :
                 c = bs_arg.lo + bs_matches[n][1] * bs_arg.m + r
        /\ GroupMul[c, GeneratorAffine] = TargetPoint}

HostVerify ==
    /\ bs_pc = "verify"
    /\ bs_found' = Verified
    /\ bs_pc' = "done"
    /\ UNCHANGED <<bs_arg, bs_table, bs_bloom, bs_tid, bs_i, bs_current,
                   bs_matchFlags, bs_matches, bs_probed, bs_hits>>
    /\ UNCHANGED notBsgsVars

\* cudaLaunchBSGS: every thread of the grid has returned, and
\* cudaDeviceSynchronize returns
LaunchReturn ==
    /\ bs_pc = "thread_entry"
    /\ bs_tid = TotalThreads
    /\ bs_pc' = "verify"
    /\ UNCHANGED <<bs_arg, bs_table, bs_bloom, bs_tid, bs_i, bs_current,
                   bs_matchFlags, bs_matches, bs_found, bs_probed, bs_hits>>
    /\ UNCHANGED notBsgsVars

BsgsNext ==
    \/ BabyStepThread \/ BabyStepStore \/ BuildBloom
    \/ GiantThreadEnter \/ GiantThreadSkip \/ GiantThreadStep \/ GiantThreadExit
    \/ LaunchReturn
    \/ ScalarMultEnter \/ ScalarMultStep \/ ScalarMultReturn
    \/ HostVerify

BsgsSpec == BsgsInit /\ [][BsgsNext]_vars

\* ---- cudaLaunchBSGS on its own: the kernel with any arguments ----
MaxGiantSteps == 5
MaxScalar == 2

\* bloom filters handed to the kernel: every bit set, no bit set, the bits of x
KernelBlooms(x, bloomSize) ==
    {0..(bloomSize * 8 - 1), {}, BloomPositions[x, bloomSize]}

KernelInit ==
    /\ PoolUnused
    /\ EcIdle
    /\ CoIdle
    /\ KrIdle
    /\ BfIdle
    /\ SbIdle
    /\ RestIdle
    /\ bs_pc = "thread_entry"
    /\ \E t \in 1..MaxScalar, m \in 1..MaxScalar, b \in BloomSizes,
          numGiantSteps \in 0..MaxGiantSteps,
          numBlocks \in 1..MaxBlocks, threadsPerBlock \in 1..MaxThreadsPerBlock :
         /\ bs_arg = [lo |-> 0, hi |-> 0, m |-> 0, k |-> 0,
                      targetX |-> KernelGiantStep(t)[1],
                      targetY |-> KernelGiantStep(t)[2],
                      giantStepX |-> KernelGiantStep(m)[1],
                      giantStepY |-> KernelGiantStep(m)[2],
                      numGiantSteps |-> numGiantSteps,
                      numBlocks |-> numBlocks, threadsPerBlock |-> threadsPerBlock,
                      giantStepsPerThread |->
                          GiantStepsPerThread(numGiantSteps, numBlocks, threadsPerBlock),
                      bloomSize |-> b]
         /\ bs_bloom \in KernelBlooms(KernelGiantStep(t)[1], b)
    /\ bs_table = <<>>
    /\ bs_tid = 0
    /\ bs_i = 0
    /\ bs_current = NoPoint
    /\ bs_matchFlags = 0
    /\ bs_matches = <<>>
    /\ bs_found = {}
    /\ bs_probed = <<>>
    /\ bs_hits = {}

KernelNext ==
    \/ GiantThreadEnter \/ GiantThreadSkip \/ GiantThreadStep \/ GiantThreadExit
    \/ LaunchReturn
    \/ ScalarMultEnter \/ ScalarMultStep \/ ScalarMultReturn

KernelSpec == KernelInit /\ [][KernelNext]_vars

\* ======================= WorkCoordinator (distributed.h) =======================
\* distributed.h declares the class and its members; the bodies of
\* initialize, get_next_work, report_completion and the timeout sweeper are
\* not in the sources, and are modelled from the design (section 4.5).  Every
\* operation runs under mutex_, so each is one step.
MaxCoordKeys == 2
MaxUnitSize == 2
MaxTime == 600
WorkTimeout == 300
ClockStep == 200
CoordLow == 1
CoordWorkers == {"w1", "w2"}
NoResult == 0

\* the keys a reported result can carry
ResultKeys == {CoordLow, CoordLow + 1}

NewWorkUnit(id, start, end) ==
    [id |-> id, start |-> start, end |-> end, assigned_worker |-> NoWorker,
     assigned_at |-> 0, completed |-> FALSE, result |-> NoResult]

\* generate_work_units: consecutive units of work_unit_size keys, the last
\* one possibly shorter, with ids from next_work_id_ = 1
GenerateWorkUnits(lo, hi, size) ==
    [n \in 1..CeilDiv(hi - lo + 1, size) |->
        NewWorkUnit(n, lo + (n - 1) * size, Min(lo + n * size - 1, hi))]

\* initialize(range, work_unit_size)
CoInit ==
    /\ PoolUnused
    /\ EcIdle
    /\ BsgsIdle
    /\ KrIdle
    /\ BfIdle
    /\ SbIdle
    /\ RestIdle
    /\ \E total \in 1..MaxCoordKeys, size \in 1..MaxUnitSize :
          /\ co_total = [lo |-> CoordLow, hi |-> CoordLow + total - 1, size |-> size]
          /\ co_pending = GenerateWorkUnits(CoordLow, CoordLow + total - 1, size)
    /\ co_inProgress = <<>>
    /\ co_completed = <<>>
    /\ co_sink = <<>>
    /\ co_now = 0
    /\ co_last = NoHandout

\* in_progress_[unit.id] = unit
MapInsert(map, unit) ==
    [n \in DOMAIN map \cup {unit.id} |-> IF n = unit.id THEN unit ELSE map[n]]

\* in_progress_.erase(id), for every id in ids
MapErase(map, ids) == [n \in DOMAIN map \ ids |-> map[n]]

\* get_next_work that leaves assigned_worker as it was
GetNextWork_KeepsWorker(worker_id) ==
    /\ co_pending # <<>>
    /\ LET unit == [Head(co_pending) EXCEPT !.assigned_at = co_now] IN
       /\ co_pending' = Tail(co_pending)
       /\ co_inProgress' = MapInsert(co_inProgress, unit)
       /\ co_last' = [id |-> unit.id, worker |-> worker_id,
                      previous |-> Head(co_pending).assigned_worker,
                      inProgress |-> unit.id \in DOMAIN co_inProgress]
    /\ UNCHANGED <<co_total, co_completed, co_sink, co_now>>
    /\ UNCHANGED notCoVars

\* get_next_work(worker_id): pops the head of pending (nothing to do, and
\* nullopt, when pending is empty), sets assigned_worker and assigned_at,
\* moves the unit to in_progress and returns it
GetNextWork(worker_id) ==
    /\ co_pending # <<>>
    /\ LET unit == [Head(co_pending) EXCEPT !.assigned_worker = worker_id,
                                            !.assigned_at = co_now] IN
       /\ co_pending' = Tail(co_pending)
       /\ co_inProgress' = MapInsert(co_inProgress, unit)
       /\ co_last' = [id |-> unit.id, worker |-> worker_id,
                      previous |-> Head(co_pending).assigned_worker,
                      inProgress |-> unit.id \in DOMAIN co_inProgress]
    /\ UNCHANGED <<co_total, co_completed, co_sink, co_now>>
    /\ UNCHANGED notCoVars

\* the result sink has already been called with this key
Published(key) == \E n \in 1..Len(co_sink) : co_sink[n] = key

\* report_completion that hands every result to the sink
ReportCompletion_NoDedupe(work_id, res) ==
    /\ IF work_id \notin DOMAIN co_inProgress
       THEN UNCHANGED <<co_inProgress, co_completed, co_sink>>
       ELSE /\ co_completed' = Append(co_completed,
                                      [co_inProgress[work_id] EXCEPT !.completed = TRUE,
                                                                     !.result = res])
            /\ co_inProgress' = MapErase(co_inProgress, {work_id})
            /\ co_sink' = IF res # NoResult THEN Append(co_sink, res) ELSE co_sink
    /\ UNCHANGED <<co_total, co_pending, co_now, co_last>>
    /\ UNCHANGED notCoVars

\* report_completion(work_id, result): ignored if work_id is unknown;
\* otherwise the unit moves from in_progress to completed, and a result is
\* handed to the result sink unless its key was published before
ReportCompletion(work_id, res) ==
    /\ IF work_id \notin DOMAIN co_inProgress
       THEN UNCHANGED <<co_inProgress, co_completed, co_sink>>
       ELSE /\ co_completed' = Append(co_completed,
                                      [co_inProgress[work_id] EXCEPT !.completed = TRUE,
                                                                     !.result = res])
            /\ co_inProgress' = MapErase(co_inProgress, {work_id})
            /\ co_sink' = IF res # NoResult /\ ~Published(res)
                          THEN Append(co_sink, res)
                          ELSE co_sink
    /\ UNCHANGED <<co_total, co_pending, co_now, co_last>>
    /\ UNCHANGED notCoVars

\* the ids of the in_progress units with now - assigned_at > work_timeout
TimedOut == {n \in DOMAIN co_inProgress : co_now - co_inProgress[n].assigned_at > WorkTimeout}

\* the units of a set of ids, in the order of the map (ascending id)
InIdOrder(map, ids) ==
    LET order == CHOOSE q \in [1..Cardinality(ids) -> ids] :
                    \A a, b \in 1..Cardinality(ids) : a < b => q[a] < q[b]
    IN [n \in 1..Cardinality(ids) |-> map[order[n]]]

\* a sweeper that re-queues the timed out units and leaves them in in_progress
CheckTimeouts_KeepsInProgress ==
    /\ TimedOut # {}
    /\ \A n \in 1..Len(co_pending) : co_pending[n].id \notin TimedOut
    /\ co_pending' = co_pending \o InIdOrder(co_inProgress, TimedOut)
    /\ UNCHANGED <<co_total, co_inProgress, co_completed, co_sink, co_now, co_last>>
    /\ UNCHANGED notCoVars

\* the timeout sweeper (check_timeouts, reassign_timeout_work): every timed
\* out unit is taken out of in_progress and reinserted into pending
CheckTimeouts ==
    /\ TimedOut # {}
    /\ co_pending' = co_pending \o InIdOrder(co_inProgress, TimedOut)
    /\ co_inProgress' = MapErase(co_inProgress, TimedOut)
    /\ UNCHANGED <<co_total, co_completed, co_sink, co_now, co_last>>
    /\ UNCHANGED notCoVars

\* time passes
ClockTick ==
    /\ co_now + ClockStep <= MaxTime
    /\ co_now' = co_now + ClockStep
    /\ UNCHANGED <<co_total, co_pending, co_inProgress, co_completed, co_sink, co_last>>
    /\ UNCHANGED notCoVars

CoNext ==
    \/ \E worker_id \in CoordWorkers : GetNextWork(worker_id)
    \/ \E work_id \in 1..(MaxCoordKeys + 1), res \in {NoResult} \cup ResultKeys :
          ReportCompletion(work_id, res)
    \/ CheckTimeouts
    \/ ClockTick

CoSpec == CoInit /\ [][CoNext]_vars

\* ======================= UInt256 and KeyRange (types.h) =======================
\* UInt256 is NUM_LIMBS limbs of LimbWidth bits, little-endian; the widths
\* are scaled down (4 x 64 bits in the source), so UInt256Bits stands for 256.
NUM_LIMBS == 2
LimbWidth == 2
LimbModulus == 2^LimbWidth
UInt256Bits == NUM_LIMBS * LimbWidth
UInt256Modulus == 2^UInt256Bits
MaxSplit == 3

LimbIndices == 0..(NUM_LIMBS - 1)

\* every UInt256
UInt256s == [LimbIndices -> 0..(LimbModulus - 1)]

\* UInt256(): limbs_.fill(0)
UInt256Zero == [n \in LimbIndices |-> 0]

\* explicit UInt256(uint64_t value)
UInt256Of(val) == [n \in LimbIndices |-> IF n = 0 THEN val % LimbModulus ELSE 0]

\* the number a UInt256 stands for
ValueOf(u) ==
    LET partial[n \in 0..NUM_LIMBS] ==
            IF n = 0 THEN 0 ELSE partial[n - 1] + u[n - 1] * LimbModulus^(n - 1)
    IN partial[NUM_LIMBS]

\* operator<: the limbs are compared from the most significant one
UInt256Less(a, b) ==
    LET less[n \in -1..(NUM_LIMBS - 1)] ==
            IF n = -1 THEN FALSE
            ELSE IF a[n] < b[n] THEN TRUE
            ELSE IF a[n] > b[n] THEN FALSE
            ELSE less[n - 1]
    IN less[NUM_LIMBS - 1]

\* operator<=, operator>, operator>=
UInt256LessEq(a, b) == ~UInt256Less(b, a)
UInt256Greater(a, b) == UInt256Less(b, a)
UInt256GreaterEq(a, b) == ~UInt256Less(a, b)

\* operator+: the carry out of limb 3 is dropped
UInt256Add(a, b) ==
    LET carry[n \in 0..NUM_LIMBS] ==
            IF n = 0 THEN 0
            ELSE (a[n - 1] + b[n - 1] + carry[n - 1]) \div LimbModulus
    IN [n \in LimbIndices |-> (a[n] + b[n] + carry[n]) % LimbModulus]

\* operator-: b = other.limbs_[i] + borrow wraps in a uint64_t
UInt256Sub(a, b) ==
    LET borrow[n \in 0..NUM_LIMBS] ==
            IF n = 0 THEN 0
            ELSE IF (b[n - 1] + borrow[n - 1]) % LimbModulus < borrow[n - 1]
                    \/ a[n - 1] < (b[n - 1] + borrow[n - 1]) % LimbModulus
                 THEN 1 ELSE 0
    IN [n \in LimbIndices |->
           (a[n] + LimbModulus - ((b[n] + borrow[n]) % LimbModulus)) % LimbModulus]

\* set_bit that always writes limb 0
SetBit_LowLimbOnly(u, pos) ==
    IF pos >= UInt256Bits THEN u
    ELSE [u EXCEPT ![0] = BitOr[@, 2^(pos % LimbWidth), LimbWidth]]

\* set_bit(pos, true); a position of 256 or more is ignored
SetBit(u, pos) ==
    IF pos >= UInt256Bits THEN u
    ELSE [u EXCEPT ![pos \div LimbWidth] = BitOr[@, 2^(pos % LimbWidth), LimbWidth]]

\* for (int i = 0; i < bit_count; ++i) range.end.set_bit(i)
SetLowBits(bit_count) ==
    LET upTo[n \in 0..bit_count] ==
            IF n = 0 THEN UInt256Zero ELSE SetBit(upTo[n - 1], n - 1)
    IN upTo[bit_count]

ValidationException == [exception |-> "ValidationException"]

\* KeyRange::for_bits(bit_count)
ForBits(bit_count) ==
    IF bit_count <= 0 \/ bit_count > UInt256Bits
    THEN ValidationException
    ELSE [start |-> SetBit(UInt256Zero, bit_count - 1), end |-> SetLowBits(bit_count)]

\* KeyRange::size()
RangeSize(range) ==
    IF UInt256Greater(range.start, range.end) THEN UInt256Of(0)
    ELSE UInt256Add(UInt256Sub(range.end, range.start), UInt256Of(1))

\* KeyRange::contains(key)
RangeContains(range, key) ==
    UInt256GreaterEq(key, range.start) /\ UInt256LessEq(key, range.end)

\* KeyRange::split(n): "parts.push_back(*this);  // Placeholder"
RangeSplit(range, n) == IF n = 0 THEN <<>> ELSE <<range>>

KeyRanges == [start : UInt256s, end : UInt256s]

\* the calls that are made
KrInit ==
    /\ PoolUnused
    /\ EcIdle
    /\ BsgsIdle
    /\ CoIdle
    /\ BfIdle
    /\ SbIdle
    /\ RestIdle
    /\ kr_pc = "call"
    /\ kr_arg \in [op : {"for_bits"}, bit_count : -1..(UInt256Bits + 2)]
                  \cup [op : {"size"}, range : KeyRanges]
                  \cup [op : {"contains"}, range : KeyRanges, key : UInt256s]
                  \cup [op : {"split"}, range : KeyRanges, n : 0..MaxSplit]
    /\ kr_ret = <<>>

CallForBits ==
    /\ kr_pc = "call"
    /\ kr_arg.op = "for_bits"
    /\ kr_ret' = ForBits(kr_arg.bit_count)
    /\ kr_pc' = IF ForBits(kr_arg.bit_count) = ValidationException
                THEN "threw" ELSE "returned"
    /\ UNCHANGED kr_arg
    /\ UNCHANGED notKrVars

CallSize ==
    /\ kr_pc = "call"
    /\ kr_arg.op = "size"
    /\ kr_ret' = RangeSize(kr_arg.range)
    /\ kr_pc' = "returned"
    /\ UNCHANGED kr_arg
    /\ UNCHANGED notKrVars

CallContains ==
    /\ kr_pc = "call"
    /\ kr_arg.op = "contains"
    /\ kr_ret' = RangeContains(kr_arg.range, kr_arg.key)
    /\ kr_pc' = "returned"
    /\ UNCHANGED kr_arg
    /\ UNCHANGED notKrVars

CallSplit ==
    /\ kr_pc = "call"
    /\ kr_arg.op = "split"
    /\ kr_ret' = RangeSplit(kr_arg.range, kr_arg.n)
    /\ kr_pc' = "returned"
    /\ UNCHANGED kr_arg
    /\ UNCHANGED notKrVars

KrNext == CallForBits \/ CallSize \/ CallContains \/ CallSplit

KrSpec == KrInit /\ [][KrNext]_vars

\* ======================= SimpleBloomFilter (test_bloom_filter.cpp) =======================
\* uint64_t is scaled down to HashBits bits; the multiplier and the shift of
\* simple_hash are scaled with it.
MaxBloomLevels == 2
HashBits == 8
HashModulus == 2^HashBits
HashFactor == 31
HashShift == 2
HashMultiplier == 107
ByteBits == 8

\* the elements handed to add and possibly_contains, as bytes
BloomElements == {<<13, 0>>, <<20, 0>>, <<27, 0>>, <<1, 1>>}

\* the (num_bits, num_hashes) the levels are constructed with
BloomShapes == {[num_bits |-> 1, num_hashes |-> 1],
                [num_bits |-> 9, num_hashes |-> 2],
                [num_bits |-> 12, num_hashes |-> 3]}

BloomFilters == [bits_ : Seq(Nat), num_bits_ : Nat, num_hashes_ : Nat]

\* one round of the loop of simple_hash
HashRound[hash \in Nat, byte \in Nat] ==
    LET mixed == (hash * HashFactor + byte) % HashModulus
    IN (BitXor[mixed, mixed \div 2^HashShift, HashBits] * HashMultiplier) % HashModulus

HashBytes[data \in Seq(Nat), n \in Nat, hash \in Nat] ==
    IF n > Len(data) THEN hash
    ELSE HashBytes[data, n + 1, HashRound[hash, data[n]]]

simple_hash[data \in Seq(Nat), seed \in Nat] == HashBytes[data, 1, seed % HashModulus]

\* SimpleBloomFilter(num_bits, num_hashes): (num_bits + 7) / 8 zero bytes
SimpleBloomFilter(num_bits, num_hashes) ==
    [bits_ |-> [b \in 1..((num_bits + 7) \div ByteBits) |-> 0],
     num_bits_ |-> num_bits,
     num_hashes_ |-> num_hashes]

\* size_t pos = h % num_bits_
BitPos[filter \in BloomFilters, data \in Seq(Nat), seed \in Nat] ==
    simple_hash[data, seed] % filter.num_bits_

\* bits_[pos / 8] |= (1 << (pos % 8)); bits_[0] is the first element here
SetBloomBit[filter \in BloomFilters, pos \in Nat] ==
    [filter EXCEPT !.bits_[(pos \div ByteBits) + 1] = BitOr[@, 2^(pos % ByteBits), ByteBits]]

\* bits_[pos / 8] & (1 << (pos % 8))
TestBloomBit[filter \in BloomFilters, pos \in Nat] ==
    (filter.bits_[(pos \div ByteBits) + 1] \div 2^(pos % ByteBits)) % 2 = 1

\* the loop of add, from hash number seed on
AddFrom[filter \in BloomFilters, data \in Seq(Nat), seed \in Nat] ==
    IF seed >= filter.num_hashes_ THEN filter
    ELSE AddFrom[SetBloomBit[filter, BitPos[filter, data, seed]], data, seed + 1]

add_FromSecondHash(filter, data) == AddFrom[filter, data, 1]

add(filter, data) == AddFrom[filter, data, 0]

\* the loop returns false at the first unset bit
possibly_contains(filter, data) ==
    \A seed \in 0..(filter.num_hashes_ - 1) : TestBloomBit[filter, BitPos[filter, data, seed]]

clear(filter) == [filter EXCEPT !.bits_ = [b \in DOMAIN @ |-> 0]]

\* the cascades constructed: one to MaxBloomLevels levels
Cascades ==
    UNION {[1..n -> {SimpleBloomFilter(sh.num_bits, sh.num_hashes) : sh \in BloomShapes}]
           : n \in 1..MaxBloomLevels}

\* cascade_check: the element passes every level
cascade_check(data) ==
    \A l \in DOMAIN bf_levels : possibly_contains(bf_levels[l], data)

BfInit ==
    /\ PoolUnused
    /\ EcIdle
    /\ BsgsIdle
    /\ CoIdle
    /\ KrIdle
    /\ SbIdle
    /\ RestIdle
    /\ bf_levels \in Cascades
    /\ bf_added = {}
    /\ bf_query = NoQuery

\* the element is added to every level
AddElement(data) ==
    /\ bf_levels' = [l \in DOMAIN bf_levels |-> add(bf_levels[l], data)]
    /\ bf_added' = bf_added \cup {data}
    /\ UNCHANGED bf_query
    /\ UNCHANGED notBfVars

QueryElement(data) ==
    /\ bf_query' = [element |-> data,
                    added |-> data \in bf_added,
                    result |-> cascade_check(data)]
    /\ UNCHANGED <<bf_levels, bf_added>>
    /\ UNCHANGED notBfVars

ClearLevels ==
    /\ bf_levels' = [l \in DOMAIN bf_levels |-> clear(bf_levels[l])]
    /\ bf_added' = {}
    /\ UNCHANGED bf_query
    /\ UNCHANGED notBfVars

BfNext ==
    \/ \E data \in BloomElements : AddElement(data)
    \/ \E data \in BloomElements : QueryElement(data)
    \/ ClearLevels

BfSpec == BfInit /\ [][BfNext]_vars

\* ======================= SecureBuffer (memory.h) =======================
\* T is uint8_t (sizeof(T) = 1), as in the tests.
MaxCount == 2
MaxAllocs == 2

\* what a byte of memory may hold: zero or a secret (0xAB)
ByteValues == {0, 171}

NotReleased == "not released"

\* AlignedAllocator::allocate: a new block of count bytes of unspecified content
Allocate(heap, garbage) ==
    Append(heap, [bytes |-> garbage, frees |-> 0, atFree |-> <<>>,
                  fresh |-> TRUE, by |-> NotReleased])

\* AlignedAllocator::deallocate; atFree keeps what the block held at that time
Deallocate(heap, ptr, path) ==
    IF ptr = nullptr THEN heap
    ELSE [heap EXCEPT ![ptr].frees = @ + 1,
                      ![ptr].atFree = heap[ptr].bytes,
                      ![ptr].by = path]

\* secure_zero(): p[i] = 0 for i < size_
secure_zero(heap, obj) ==
    IF obj.data_ # nullptr /\ obj.size_ > 0
    THEN [heap EXCEPT ![obj.data_].bytes =
             [i \in DOMAIN @ |-> IF i <= obj.size_ THEN 0 ELSE @[i]]]
    ELSE heap

\* lock(): mlock may fail
Lock(lock_memory) == IF lock_memory THEN BOOLEAN ELSE {FALSE}

SbInit ==
    /\ PoolUnused
    /\ EcIdle
    /\ BsgsIdle
    /\ CoIdle
    /\ KrIdle
    /\ BfIdle
    /\ RestIdle
    /\ sb_objs = [b \in Buffers |-> NoBuffer]
    /\ sb_heap = <<>>

\* SecureBuffer(count, lock_memory)
Construct(b, count, lock_memory) ==
    /\ ~sb_objs[b].alive
    /\ IF count = 0
       THEN /\ sb_objs' = [sb_objs EXCEPT ![b] =
                   [alive |-> TRUE, data_ |-> nullptr, size_ |-> 0,
                    locked_ |-> FALSE, moved |-> FALSE]]
            /\ UNCHANGED sb_heap
       ELSE /\ Len(sb_heap) < MaxAllocs
            /\ \E garbage \in [1..count -> ByteValues], locked \in Lock(lock_memory) :
                  LET obj == [alive |-> TRUE, data_ |-> Len(sb_heap) + 1, size_ |-> count,
                              locked_ |-> locked, moved |-> FALSE]
                  IN /\ sb_objs' = [sb_objs EXCEPT ![b] = obj]
                     /\ sb_heap' = secure_zero(Allocate(sb_heap, garbage), obj)
    /\ UNCHANGED notSbVars

\* buffer[i] = v (i counts from 1 here)
WriteByte(b, i, v) ==
    /\ sb_objs[b].alive
    /\ sb_objs[b].data_ # nullptr
    /\ i <= sb_objs[b].size_
    /\ sb_heap' = [sb_heap EXCEPT ![sb_objs[b].data_].bytes[i] = v,
                                  ![sb_objs[b].data_].fresh = FALSE]
    /\ UNCHANGED sb_objs
    /\ UNCHANGED notSbVars

\* buffer.secure_zero()
CallSecureZero(b) ==
    /\ sb_objs[b].alive
    /\ sb_heap' = secure_zero(sb_heap, sb_objs[b])
    /\ UNCHANGED sb_objs
    /\ UNCHANGED notSbVars

\* ~SecureBuffer()
Destroy(b) ==
    /\ sb_objs[b].alive
    /\ sb_heap' = IF sb_objs[b].data_ # nullptr
                  THEN Deallocate(secure_zero(sb_heap, sb_objs[b]), sb_objs[b].data_,
                                  "destructor")
                  ELSE sb_heap
    /\ sb_objs' = [sb_objs EXCEPT ![b] = NoBuffer]
    /\ UNCHANGED notSbVars

\* SecureBuffer(SecureBuffer&& other)
MoveConstruct(b, other) ==
    /\ b # other
    /\ ~sb_objs[b].alive
    /\ sb_objs[other].alive
    /\ sb_objs' = [sb_objs EXCEPT
                     ![b] = [sb_objs[other] EXCEPT !.moved = FALSE],
                     ![other] = [@ EXCEPT !.data_ = nullptr, !.size_ = 0,
                                          !.locked_ = FALSE, !.moved = TRUE]]
    /\ UNCHANGED sb_heap
    /\ UNCHANGED notSbVars

MoveAssign_NoWipe(b, other) ==
    /\ sb_objs[b].alive
    /\ sb_objs[other].alive
    /\ IF b # other
       THEN /\ sb_heap' = IF sb_objs[b].data_ # nullptr
                          THEN Deallocate(sb_heap, sb_objs[b].data_, "move_assignment")
                          ELSE sb_heap
            /\ sb_objs' = [sb_objs EXCEPT
                             ![b] = [sb_objs[other] EXCEPT !.moved = FALSE],
                             ![other] = [@ EXCEPT !.data_ = nullptr, !.size_ = 0,
                                                  !.locked_ = FALSE, !.moved = TRUE]]
       ELSE UNCHANGED <<sb_objs, sb_heap>>
    /\ UNCHANGED notSbVars

\* operator=(SecureBuffer&& other)
MoveAssign(b, other) ==
    /\ sb_objs[b].alive
    /\ sb_objs[other].alive
    /\ IF b # other
       THEN /\ sb_heap' = IF sb_objs[b].data_ # nullptr
                          THEN Deallocate(secure_zero(sb_heap, sb_objs[b]),
                                          sb_objs[b].data_, "move_assignment")
                          ELSE sb_heap
            /\ sb_objs' = [sb_objs EXCEPT
                             ![b] = [sb_objs[other] EXCEPT !.moved = FALSE],
                             ![other] = [@ EXCEPT !.data_ = nullptr, !.size_ = 0,
                                                  !.locked_ = FALSE, !.moved = TRUE]]
       ELSE UNCHANGED <<sb_objs, sb_heap>>
    /\ UNCHANGED notSbVars

SbNext ==
    \/ \E b \in Buffers, count \in 0..MaxCount, lock_memory \in BOOLEAN :
          Construct(b, count, lock_memory)
    \/ \E b \in Buffers, i \in 1..MaxCount, v \in ByteValues : WriteByte(b, i, v)
    \/ \E b \in Buffers : CallSecureZero(b)
    \/ \E b \in Buffers : Destroy(b)
    \/ \E b, other \in Buffers : MoveConstruct(b, other)
    \/ \E b, other \in Buffers : MoveAssign(b, other)

SbSpec == SbInit /\ [][SbNext]_vars

\* ======================= device functions called on their own =======================
\* modMul(r, a, b) for canonical a and b, and pointDouble(R, P) with R and P
\* the same object or not.

\* second operands of modMul: small values, limb boundaries, p/2 and the top
MulSamples == {0, 1, 2, LimbBase - 1, LimbBase, LimbBase + 1,
               SECP256K1_P \div 2, SECP256K1_P - LimbBase, SECP256K1_P - 2, SECP256K1_P - 1}

DvInit ==
    /\ PoolUnused
    /\ EcIdle
    /\ BsgsIdle
    /\ CoIdle
    /\ KrIdle
    /\ BfIdle
    /\ SbIdle
    /\ MsIdle
    /\ MpIdle
    /\ \/ \E a \in 0..(SECP256K1_P - 1), b \in MulSamples :
             dv_call = [pc |-> "entry", fn |-> "modMul", a |-> a, b |-> b, r |-> 0,
                        P |-> NoPoint, inPlace |-> FALSE, R |-> NoPoint]
       \/ \E P \in EcPoints, inPlace \in BOOLEAN :
             dv_call = [pc |-> "entry", fn |-> "pointDouble", a |-> 0, b |-> 0, r |-> 0,
                        P |-> P, inPlace |-> inPlace, R |-> NoPoint]

\* modMul(&r, &a, &b)
CallModMul ==
    /\ dv_call.pc = "entry"
    /\ dv_call.fn = "modMul"
    /\ dv_call' = [dv_call EXCEPT !.pc = "returned", !.r = ModMul[dv_call.a, dv_call.b]]
    /\ UNCHANGED notDvVars

\* pointDouble(&R, &P), or pointDouble(&P, &P) when inPlace
CallPointDouble ==
    /\ dv_call.pc = "entry"
    /\ dv_call.fn = "pointDouble"
    /\ dv_call' = [dv_call EXCEPT !.pc = "returned",
                                  !.R = PointDouble[dv_call.P, dv_call.inPlace]]
    /\ UNCHANGED notDvVars

DvNext == CallModMul \/ CallPointDouble

DvSpec == DvInit /\ [][DvNext]_vars

\* ======================= MemoryStats (memory.h) =======================
\* Every atomic operation is one step; the threads interleave between them.
MaxBytes == 2
MaxRecordCalls == 3

\* a sequence without its n-th element
RemoveAt(seq, n) == [m \in 1..(Len(seq) - 1) |-> IF m < n THEN seq[m] ELSE seq[m + 1]]

MsInit ==
    /\ PoolUnused
    /\ EcIdle
    /\ BsgsIdle
    /\ CoIdle
    /\ KrIdle
    /\ BfIdle
    /\ SbIdle
    /\ DvIdle
    /\ MpIdle
    /\ ms_stats = NoStats
    /\ ms_thr = [t \in Threads |-> StatsOutside]
    /\ ms_seen = NothingSeen

\* record_allocation(bytes): allocated_.fetch_add(bytes)
AllocationAdd(t, bytes) ==
    /\ ms_thr[t].pc = "outside"
    /\ ms_seen.calls < MaxRecordCalls
    /\ ms_stats' = [ms_stats EXCEPT !.allocated_ = @ + bytes]
    /\ ms_thr' = [ms_thr EXCEPT ![t] = [pc |-> "count", bytes |-> bytes,
                                        current |-> 0, peak |-> 0]]
    /\ ms_seen' = [ms_seen EXCEPT !.calls = @ + 1,
                                  !.high = Max(@, ms_stats.allocated_ + bytes)]
    /\ UNCHANGED notMsVars

\* total_allocations_.fetch_add(1)
AllocationCount(t) ==
    /\ ms_thr[t].pc = "count"
    /\ ms_stats' = [ms_stats EXCEPT !.total_allocations_ = @ + 1]
    /\ ms_thr' = [ms_thr EXCEPT ![t].pc = "load_current"]
    /\ UNCHANGED ms_seen
    /\ UNCHANGED notMsVars

\* size_t current = allocated_.load()
LoadCurrent(t) ==
    /\ ms_thr[t].pc = "load_current"
    /\ ms_thr' = [ms_thr EXCEPT ![t].pc = "load_peak", ![t].current = ms_stats.allocated_]
    /\ UNCHANGED <<ms_stats, ms_seen>>
    /\ UNCHANGED notMsVars

\* size_t peak = peak_allocated_.load()
LoadPeak(t) ==
    /\ ms_thr[t].pc = "load_peak"
    /\ ms_thr' = [ms_thr EXCEPT ![t].pc = "loop", ![t].peak = ms_stats.peak_allocated_]
    /\ UNCHANGED <<ms_stats, ms_seen>>
    /\ UNCHANGED notMsVars

\* while (current > peak && !peak_allocated_.compare_exchange_weak(peak, current)):
\* the exchange stores current and ends the call, or reloads peak and loops
\* (a spurious failure reloads the same value and changes nothing)
ExchangePeak(t) ==
    /\ ms_thr[t].pc = "loop"
    /\ ms_thr[t].current > ms_thr[t].peak
    /\ IF ms_stats.peak_allocated_ = ms_thr[t].peak
       THEN /\ ms_stats' = [ms_stats EXCEPT !.peak_allocated_ = ms_thr[t].current]
            /\ ms_thr' = [ms_thr EXCEPT ![t] = StatsOutside]
            /\ ms_seen' = [ms_seen EXCEPT !.blocks = Append(@, ms_thr[t].bytes),
                                          !.completed = @ + 1]
       ELSE /\ ms_thr' = [ms_thr EXCEPT ![t].peak = ms_stats.peak_allocated_]
            /\ UNCHANGED <<ms_stats, ms_seen>>
    /\ UNCHANGED notMsVars

\* current <= peak: the loop ends and record_allocation returns
AllocationReturn(t) ==
    /\ ms_thr[t].pc = "loop"
    /\ ms_thr[t].current <= ms_thr[t].peak
    /\ ms_thr' = [ms_thr EXCEPT ![t] = StatsOutside]
    /\ ms_seen' = [ms_seen EXCEPT !.blocks = Append(@, ms_thr[t].bytes),
                                  !.completed = @ + 1]
    /\ UNCHANGED ms_stats
    /\ UNCHANGED notMsVars

\* record_deallocation(bytes) of a block recorded before: allocated_.fetch_sub(bytes)
DeallocationSub(t, n) ==
    /\ ms_thr[t].pc = "outside"
    /\ n \in 1..Len(ms_seen.blocks)
    /\ ms_stats' = [ms_stats EXCEPT !.allocated_ = @ - ms_seen.blocks[n]]
    /\ ms_thr' = [ms_thr EXCEPT ![t].pc = "count_free"]
    /\ ms_seen' = [ms_seen EXCEPT !.blocks = RemoveAt(@, n)]
    /\ UNCHANGED notMsVars

\* total_deallocations_.fetch_add(1), and record_deallocation returns
DeallocationCount(t) ==
    /\ ms_thr[t].pc = "count_free"
    /\ ms_stats' = [ms_stats EXCEPT !.total_deallocations_ = @ + 1]
    /\ ms_thr' = [ms_thr EXCEPT ![t] = StatsOutside]
    /\ UNCHANGED ms_seen
    /\ UNCHANGED notMsVars

MsNext ==
    \/ \E t \in Threads, bytes \in 1..MaxBytes : AllocationAdd(t, bytes)
    \/ \E t \in Threads : AllocationCount(t)
    \/ \E t \in Threads : LoadCurrent(t)
    \/ \E t \in Threads : LoadPeak(t)
    \/ \E t \in Threads : ExchangePeak(t)
    \/ \E t \in Threads : AllocationReturn(t)
    \/ \E t \in Threads, n \in 1..MaxRecordCalls : DeallocationSub(t, n)
    \/ \E t \in Threads : DeallocationCount(t)

MsSpec == MsInit /\ [][MsNext]_vars

\* ======================= properties =======================

Dequeues(w) == w \in Workers /\ wpc[w] = "check" /\ wpc'[w] = "popped"
Submitted == 1..nsub
HeldIds == {cur[w].id : w \in InFlight}

\* C1: when wait() returns, every task submitted before the call has been run
\* and no worker holds a task it has dequeued and not yet run.
C1_WaitReturnsAfterAllTasks ==
    cpc = "wait_ret" => (Submitted \subseteq done /\ InFlight = {})

\* C2: while the pool is paused, every task submitted since pause() is still
\* in the queue: no worker has dequeued it.
C2_PausedTasksStayQueued ==
    paused_ => pausedSubmitted \subseteq QueuedIds

\* a worker found the pool paused with tasks submitted during the pause and
\* is about to sleep instead of popping; or it was sent round by the pop guard
C2_Witness ==
    /\ paused_
    /\ pausedSubmitted # {}
    /\ \E w \in Workers : wpc[w] = "block"
    /\ stop_ = FALSE

\* C4: whenever a worker dequeues a task, no task of strictly higher priority
\* is in the queue at that moment.
C4_DequeueTakesHighestPriority ==
    [][\A w \in 1..MaxWorkers :
          Dequeues(w) =>
              \A i \in 1..Len(tasks_) : tasks_[i].priority <= cur'[w].priority]_vars

\* a worker has just dequeued a task that overtook an older task of lower priority
C4_Witness ==
    \E w \in Workers :
        /\ wpc[w] = "popped"
        /\ \E i \in 1..Len(tasks_) :
              /\ tasks_[i].priority < cur[w].priority
              /\ tasks_[i].id < cur[w].id

\* C5: a worker never dequeues a task while a task of the same priority that
\* was submitted earlier is still queued.
C5_FifoAmongEqualPriorities ==
    [][\A w \in 1..MaxWorkers :
          Dequeues(w) =>
              \A i \in 1..Len(tasks_) :
                  tasks_[i].priority = cur'[w].priority => tasks_[i].id >= cur'[w].id]_vars

\* a step of the caller inside wait_for
WaitForStep ==
    /\ cpc' # cpc
    /\ cpc' \in {"wf_ret", "wf_block", "wf_waiting", "wf_deadline"}

\* every submitted task is queued, held by a worker, or has been run
NoTaskLost == Submitted = QueuedIds \cup HeldIds \cup done

WaitForKeeps ==
    WaitForStep =>
        /\ tasks_' = tasks_ /\ cur' = cur /\ wpc' = wpc
        /\ done' = done /\ active_tasks_' = active_tasks_
        /\ stop_' = stop_ /\ paused_' = paused_

WaitForResult ==
    (cpc = "wf_deadline" /\ cpc' = "wf_ret") =>
        (ret' = FALSE <=> (tasks_ # <<>> \/ active_tasks_ > 0))

C3_ResumedTasksEventuallyRun ==
    (resumedSet # {}) ~> (resumedSet = {} \/ paused_ \/ stop_)

ActiveWorkers == {w \in Workers : wpc[w] \in {"run", "fin"}}

WorkerSurvivesTask ==
    \A w \in 1..MaxWorkers :
        (w \in Workers /\ wpc[w] = "run" /\ wpc'[w] # "run") => wpc'[w] = "fin"

\* C7: a worker whose task throws goes on as after any other task (it does
\* not exit), active_tasks_ counts exactly the workers between fetch_add and
\* fetch_sub whether or not their task threw, and once a task has thrown
\* the tasks that are queued are all run in the end.
C7_ThrowingTaskLeavesPoolUsable ==
    /\ [][WorkerSurvivesTask]_vars
    /\ [](active_tasks_ = Cardinality(ActiveWorkers))
    /\ (threw # {} /\ QueuedIds # {}) ~> (QueuedIds = {} /\ Submitted \subseteq done)

\* the only worker of a pool has run a task to its end after an earlier one threw
C7_Witness ==
    /\ Cardinality(Workers) = 1
    /\ threw # {}
    /\ \E t \in done \ threw : \E u \in threw : u < t
    /\ \E w \in Workers : wpc[w] = "fin"

\* C8: when wait() returns and the last reset_stats() found the pool idle,
\* the counters show every submission since then as submitted and completed
\* and none as pending.
C8_StatsAfterWait ==
    (cpc = "wait_ret" /\ resetIdle) =>
        /\ stats_.tasks_submitted = sinceReset
        /\ stats_.tasks_completed = sinceReset
        /\ stats_.tasks_pending = 0

InRange(j) == parg.start <= j /\ j < parg.end

\* C9: when parallel_for returns, func has been applied exactly once to every
\* index of [start, end) and to no other index, and every chunk has finished.
C9_ParallelForCallsEachIndexOnce ==
    (ppc = "returned" /\ parg.kind = "for") =>
        /\ \A j \in 0..(IndexModulus - 1) : calls[j] = IF InRange(j) THEN 1 ELSE 0
        /\ \A n \in 1..Len(futures) : futures[n] \in done

\* the sequential left fold of map_func over [lo, hi): <<lo, lo + 1, ..., hi - 1>>
SequentialFold(lo, hi) == [n \in 1..(IF lo < hi THEN hi - lo ELSE 0) |-> lo + n - 1]

\* C10: parallel_reduce returns the sequential left fold of map_func over
\* [start, end), whatever the order in which the workers ran the chunks.
C10_ParallelReduceEqualsFold ==
    (ppc = "returned" /\ parg.kind = "reduce") =>
        result = SequentialFold(parg.start, parg.end)

\* C19: when scalarMult returns it has made exactly ScalarBits (256) loop
\* passes and *R stands for k * P.
C19_ScalarMultComputesKP ==
    (sm_pc = "returned") =>
        /\ sm_i = ScalarBits
        /\ AffineOf[sm_R] = GroupMul[sm_k, AffineOf[sm_P]]

\* C11: when the search is over, the key k behind the target T = k*G has been
\* returned (it was hit at some giant step j and baby index i with
\* k = lo + j*m + i, and verified).
C11_BsgsReturnsKey ==
    (bs_pc = "done") => (bs_found = {bs_arg.k})

\* the units the coordinator holds, pending first, then in progress, then completed
CoUnits ==
    co_pending \o InIdOrder(co_inProgress, DOMAIN co_inProgress) \o co_completed

OriginalSplit == GenerateWorkUnits(co_total.lo, co_total.hi, co_total.size)

SeqIds(units) == {units[n].id : n \in 1..Len(units)}

\* C12: pending, in_progress and completed are pairwise disjoint, together
\* they hold each unit of the original split exactly once, and so every key
\* of the range lies in exactly one unit held.
C12_PartitionCover ==
    /\ SeqIds(co_pending) \cap DOMAIN co_inProgress = {}
    /\ SeqIds(co_pending) \cap SeqIds(co_completed) = {}
    /\ DOMAIN co_inProgress \cap SeqIds(co_completed) = {}
    /\ Len(CoUnits) = Len(OriginalSplit)
    /\ \A n \in 1..Len(OriginalSplit) :
          \E c \in 1..Len(CoUnits) :
             /\ CoUnits[c].id = OriginalSplit[n].id
             /\ CoUnits[c].start = OriginalSplit[n].start
             /\ CoUnits[c].end = OriginalSplit[n].end
    /\ \A key \in co_total.lo..co_total.hi :
          Cardinality({c \in 1..Len(CoUnits) :
                          CoUnits[c].start <= key /\ key <= CoUnits[c].end}) = 1

\* two units, one completed, the other handed out again after a timeout
C12_Witness ==
    /\ co_completed # <<>>
    /\ co_inProgress # <<>>
    /\ co_last.previous # NoWorker
    /\ co_last.id \in DOMAIN co_inProgress

\* C13: the result sink is called at most once with any key.
C13_AtMostOncePublication ==
    \A a, b \in 1..Len(co_sink) : co_sink[a] = co_sink[b] => a = b

\* two completions carried the same key, one of them of a unit that had
\* timed out and was handed out twice
C13_Witness ==
    /\ \E a, b \in 1..Len(co_completed) :
          /\ a # b
          /\ co_completed[a].result # NoResult
          /\ co_completed[a].result = co_completed[b].result
          /\ Published(co_completed[a].result)
    /\ co_last.previous # NoWorker

\* C14: get_next_work never returns a unit whose id is in in_progress, no id
\* is both pending and in progress, each in_progress entry is the unit of
\* its id, and the unit last handed out is recorded as assigned to the
\* worker it was handed to.
C14_OneHolderPerId ==
    /\ ~co_last.inProgress
    /\ SeqIds(co_pending) \cap DOMAIN co_inProgress = {}
    /\ \A n \in DOMAIN co_inProgress : co_inProgress[n].id = n
    /\ co_last.id \in DOMAIN co_inProgress =>
          co_inProgress[co_last.id].assigned_worker = co_last.worker

\* a unit that timed out with one worker is in progress with another
C14_Witness ==
    /\ co_last.previous \notin {NoWorker, co_last.worker}
    /\ co_last.id \in DOMAIN co_inProgress
    /\ co_inProgress[co_last.id].assigned_worker = co_last.worker

\* the number of keys of a sub-range
PartSize(part) == ValueOf(part.end) - ValueOf(part.start) + 1

\* C15: split(n) with n >= 1 returns consecutive non-empty sub-ranges that
\* start at start and end at end (so they are disjoint and cover the range),
\* all of one size except that the last may be shorter, and more than one of
\* them whenever n >= 2 and the range has at least two keys.
C15_SplitPartitionsRange ==
    (/\ kr_pc = "returned"
     /\ kr_arg.op = "split"
     /\ kr_arg.n >= 1
     /\ ValueOf(kr_arg.range.start) <= ValueOf(kr_arg.range.end)) =>
        /\ Len(kr_ret) >= 1
        /\ kr_ret[1].start = kr_arg.range.start
        /\ kr_ret[Len(kr_ret)].end = kr_arg.range.end
        /\ \A n \in 1..Len(kr_ret) : PartSize(kr_ret[n]) >= 1
        /\ \A n \in 1..(Len(kr_ret) - 1) :
              /\ ValueOf(kr_ret[n + 1].start) = ValueOf(kr_ret[n].end) + 1
              /\ PartSize(kr_ret[n]) = PartSize(kr_ret[1])
        /\ PartSize(kr_ret[Len(kr_ret)]) <= PartSize(kr_ret[1])
        /\ (kr_arg.n >= 2 /\ PartSize(kr_arg.range) >= 2) => Len(kr_ret) > 1

\* C16: for_bits(n) returns [2^(n-1), 2^n - 1] for 1 <= n <= 256, and throws
\* ValidationException, returning no range, for every other n.
C16_ForBitsRange ==
    (kr_pc \in {"returned", "threw"} /\ kr_arg.op = "for_bits") =>
        IF 1 <= kr_arg.bit_count /\ kr_arg.bit_count <= UInt256Bits
        THEN /\ kr_pc = "returned"
             /\ ValueOf(kr_ret.start) = 2^(kr_arg.bit_count - 1)
             /\ ValueOf(kr_ret.end) = 2^kr_arg.bit_count - 1
        ELSE /\ kr_pc = "threw"
             /\ kr_ret = ValidationException

\* for_bits has returned the range of the widest keys, [2^255, 2^256 - 1]
C16_Witness ==
    /\ kr_pc = "returned"
    /\ kr_arg.op = "for_bits"
    /\ kr_arg.bit_count = UInt256Bits
    /\ kr_ret.start # kr_ret.end

\* C17: size() is end - start + 1 as an integer when start <= end, and 0
\* when start > end.
C17_SizeIsKeyCount ==
    (kr_pc = "returned" /\ kr_arg.op = "size") =>
        ValueOf(kr_ret) =
            IF ValueOf(kr_arg.range.start) <= ValueOf(kr_arg.range.end)
            THEN ValueOf(kr_arg.range.end) - ValueOf(kr_arg.range.start) + 1
            ELSE 0

\* C18: an element added to the filter (to every level of a cascade) since the
\* last clear is never reported absent: the membership test of each level, and
\* so the cascade's conjunction, answers true for it.
C18_NoFalseNegatives ==
    /\ \A data \in bf_added : cascade_check(data)
    /\ bf_query.added => bf_query.result

\* a two-level cascade holding two elements answered true for one of them
\* while a third element is told apart
C18_Witness ==
    /\ Len(bf_levels) = 2
    /\ Cardinality(bf_added) = 2
    /\ bf_query.added
    /\ bf_query.result
    /\ bf_query.element \in bf_added
    /\ \E data \in BloomElements \ bf_added : ~cascade_check(data)

AllZero(bytes) == \A i \in DOMAIN bytes : bytes[i] = 0

Owners(ptr) == {b \in Buffers : sb_objs[b].alive /\ sb_objs[b].data_ = ptr}

\* C20: the bytes of a SecureBuffer are all zero from its construction to the
\* first write; a block is released at most once and holds only zero bytes when
\* it is released, by the destructor or by move-assignment; a moved-from buffer
\* owns nothing, and a block that is not released yet has exactly one owner,
\* a released one none.
C20_WipeOnDrop ==
    /\ \A ptr \in DOMAIN sb_heap :
          /\ (sb_heap[ptr].fresh /\ sb_heap[ptr].frees = 0) => AllZero(sb_heap[ptr].bytes)
          /\ sb_heap[ptr].frees <= 1
          /\ sb_heap[ptr].frees = 1 =>
                /\ DOMAIN sb_heap[ptr].atFree = DOMAIN sb_heap[ptr].bytes
                /\ AllZero(sb_heap[ptr].atFree)
          /\ Cardinality(Owners(ptr)) = (IF sb_heap[ptr].frees = 0 THEN 1 ELSE 0)
    /\ \A b \in Buffers :
          sb_objs[b].moved => (sb_objs[b].data_ = nullptr /\ sb_objs[b].size_ = 0)

\* blocks of two bytes that held a secret were released by the destructor and
\* by move-assignment, and a moved-from buffer is alive next to the target
C20_Witness ==
    /\ \E p1, p2 \in DOMAIN sb_heap :
          /\ sb_heap[p1].by = "destructor" /\ ~sb_heap[p1].fresh
          /\ sb_heap[p2].by = "move_assignment" /\ ~sb_heap[p2].fresh
          /\ Len(sb_heap[p1].atFree) = 2 /\ Len(sb_heap[p2].atFree) = 2
    /\ \E b, other \in Buffers :
          /\ sb_objs[b].alive /\ sb_objs[b].moved
          /\ sb_objs[other].alive /\ ~sb_objs[other].moved

\* C23: for canonical a and b, modMul leaves r = (a * b) mod p, below p (no
\* carry of the reduction is lost).
C23_ModMulIsProductModP ==
    (dv_call.pc = "returned" /\ dv_call.fn = "modMul") =>
        /\ dv_call.r = (dv_call.a * dv_call.b) % SECP256K1_P
        /\ dv_call.r < SECP256K1_P

\* C30: pointDouble returns the same point when its output is its input as
\* when they are different objects.
C30_PointDoubleInPlace ==
    (dv_call.pc = "returned" /\ dv_call.fn = "pointDouble") =>
        dv_call.R = PointDouble[dv_call.P, FALSE]

\* the giant steps thread tid has probed
ProbedBy(tid) == {bs_probed[n][2] : n \in {n \in 1..Len(bs_probed) : bs_probed[n][1] = tid}}

\* the interval [tid*g, min((tid+1)*g, numGiantSteps)) of thread tid
Interval(tid) ==
    {j \in 0..(NumGiantSteps - 1) :
        /\ tid * bs_arg.giantStepsPerThread <= j
        /\ j < (tid + 1) * bs_arg.giantStepsPerThread}

C25_NoBloomHitLost ==
    bs_pc = "verify" =>
        \A hit \in bs_hits : \E n \in 1..Len(bs_matches) : bs_matches[n] = hit

\* some thread is inside record_allocation
Recording == \E t \in Threads : ms_thr[t].pc \notin {"outside", "count_free"}

\* C21: when record_allocation calls have completed and none is running,
\* peak_allocated() is at least every value allocated_ has held so far.
C21_PeakIsHighWaterMark ==
    (ms_seen.completed > 0 /\ ~Recording) => ms_stats.peak_allocated_ >= ms_seen.high

\* ---------------------------------------------------------------------
\* MemoryPool<T, BlockSize> (memory.h): allocate() and clear() from
\* several threads.  A block is named by the order malloc returned it
\* (nothing is freed before the destructor, so every malloc result is a
\* new address); a slot is the pair <<block, position>>.  mp_slots
\* records the slots returned since the last clear().
\* ---------------------------------------------------------------------
\* BlockSize is 4096 by default (1024 in the tests); 2 keeps a block
\* boundary within two allocations.
BlockSize == 2
MaxPoolBlocks == 3
MaxClears == 2

MpInit ==
    /\ PoolUnused /\ EcIdle /\ BsgsIdle /\ CoIdle /\ KrIdle /\ BfIdle /\ SbIdle
    /\ DvIdle /\ MsIdle
    /\ mp_pool = EmptyPool
    /\ mp_thr = [t \in Threads |-> "outside"]
    /\ mp_slots = NoSlots

\* allocate(): std::lock_guard<std::mutex> lock(mutex_)
AllocateLock_NoMutex(t) ==
    /\ mp_thr[t] = "outside"
    /\ mp_pool' = [mp_pool EXCEPT !.mutex_ = t]
    /\ mp_thr' = [mp_thr EXCEPT ![t] = "allocate"]
    /\ UNCHANGED <<mp_slots, notMpVars>>

AllocateLock(t) ==
    /\ mp_thr[t] = "outside"
    /\ mp_pool.mutex_ = NoMutexOwner
    /\ mp_pool' = [mp_pool EXCEPT !.mutex_ = t]
    /\ mp_thr' = [mp_thr EXCEPT ![t] = "allocate"]
    /\ UNCHANGED <<mp_slots, notMpVars>>

NeedsBlock == mp_pool.current_block_ = nullptr \/ mp_pool.current_pos_ >= BlockSize

\* if (!current_block_ || current_pos_ >= BlockSize) allocate_block();
\* malloc succeeds and returns a new block.
allocate_block(t) ==
    /\ mp_thr[t] = "allocate"
    /\ IF NeedsBlock
       THEN /\ Len(mp_pool.blocks_) < MaxPoolBlocks
            /\ LET new_block == Len(mp_pool.blocks_) + 1
               IN mp_pool' = [mp_pool EXCEPT !.blocks_ = Append(@, new_block),
                                             !.current_block_ = new_block,
                                             !.current_pos_ = 0,
                                             !.blocks_allocated_ = @ + 1]
       ELSE UNCHANGED mp_pool
    /\ mp_thr' = [mp_thr EXCEPT ![t] = "allocate_return"]
    /\ UNCHANGED <<mp_slots, notMpVars>>

\* malloc returns null: allocate_block throws std::bad_alloc, the
\* lock_guard releases the mutex, no slot is returned.
AllocateThrow(t) ==
    /\ mp_thr[t] = "allocate"
    /\ NeedsBlock
    /\ mp_pool' = [mp_pool EXCEPT !.mutex_ = NoMutexOwner]
    /\ mp_thr' = [mp_thr EXCEPT ![t] = "outside"]
    /\ mp_slots' = [mp_slots EXCEPT !.thrown = 1]
    /\ UNCHANGED notMpVars

\* return &current_block_[current_pos_++];  (and the lock_guard unlocks)
AllocateReturn(t) ==
    /\ mp_thr[t] = "allocate_return"
    /\ mp_slots' = [mp_slots EXCEPT !.returned =
           Append(@, [thread |-> t, block |-> mp_pool.current_block_,
                      pos |-> mp_pool.current_pos_])]
    /\ mp_pool' = [mp_pool EXCEPT !.current_pos_ = @ + 1,
                                  !.mutex_ = NoMutexOwner]
    /\ mp_thr' = [mp_thr EXCEPT ![t] = "outside"]
    /\ UNCHANGED notMpVars

\* clear(), whole body under the lock_guard: the position is reset and
\* the first block becomes the current one; the blocks are kept.
PoolClear(t) ==
    /\ mp_thr[t] = "outside"
    /\ mp_pool.mutex_ = NoMutexOwner
    /\ mp_slots.clears < MaxClears
    /\ mp_pool' = [mp_pool EXCEPT !.current_pos_ = 0,
                                  !.current_block_ =
                                      IF mp_pool.blocks_ # <<>>
                                      THEN mp_pool.blocks_[1] ELSE @]
    /\ mp_slots' = [mp_slots EXCEPT !.returned = <<>>, !.clears = @ + 1]
    /\ UNCHANGED <<mp_thr, notMpVars>>

MpNext ==
    \/ \E t \in Threads : AllocateLock(t)
    \/ \E t \in Threads : allocate_block(t)
    \/ \E t \in Threads : AllocateThrow(t)
    \/ \E t \in Threads : AllocateReturn(t)
    \/ \E t \in Threads : PoolClear(t)

MpSpec == MpInit /\ [][MpNext]_vars

OwnedSlot(s) ==
    /\ \E b \in 1..Len(mp_pool.blocks_) : mp_pool.blocks_[b] = s.block
    /\ s.pos < BlockSize

\* C22: between two clear() calls no two allocate() calls, from the same
\* or from different threads, return the same slot, and every returned
\* slot lies inside a block the pool owns.
C22_AllocateThreadSafe ==
    /\ \A i, j \in 1..Len(mp_slots.returned) :
           i # j => \/ mp_slots.returned[i].block # mp_slots.returned[j].block
                    \/ mp_slots.returned[i].pos # mp_slots.returned[j].pos
    /\ \A i \in 1..Len(mp_slots.returned) : OwnedSlot(mp_slots.returned[i])

\* After a clear(), both threads have been given slots, the slots span
\* the first block and a block allocated after the clear, and a thread
\* is inside allocate() holding the mutex.
C22_Witness ==
    /\ mp_slots.clears > 0
    /\ Len(mp_slots.returned) = BlockSize + 1
    /\ \E i, j \in 1..Len(mp_slots.returned) :
           mp_slots.returned[i].thread # mp_slots.returned[j].thread
    /\ mp_slots.returned[1].block = 1
    /\ mp_slots.returned[BlockSize + 1].block > 1
    /\ \E t \in Threads : mp_thr[t] = "allocate_return"

\* C26: once shutdown() has set stop_, it returns in the end with every
\* worker joined, whatever state the pool was in (a paused pool with
\* tasks in the queue included).
C26_ShutdownEventuallyReturns ==
    (cpc = "sd_notify") ~> (cpc = "down" /\ \A w \in Workers : wpc[w] = "exited")

\* C27: on a pool that is never paused, a wait() that found work
\* outstanding returns in the end.
C27_WaitEventuallyReturns ==
    (cpc = "wait_block") ~> (cpc = "wait_ret")

\* C28: when shutdown() has returned on a pool that was not paused, every
\* task that submit or submit_batch accepted has been run.
C28_AcceptedTasksRunBeforeShutdownReturns ==
    (cpc = "down" /\ ~paused_) => Submitted \subseteq done

\* shutdown() has returned on a two-worker pool that was not paused, after
\* MaxTasks tasks were accepted, and all of them have been run
C28_Witness ==
    /\ cpc = "down"
    /\ ~paused_
    /\ Cardinality(Workers) = 2
    /\ nsub = MaxTasks
    /\ done = 1..MaxTasks

\* C29: whenever queue_mutex_ is free, tasks_pending is the number of
\* tasks in the queue.
C29_PendingEqualsQueueSize ==
    mutex = NoHolder => stats_.tasks_pending = Len(tasks_)
====
